---- MODULE Spec2Model ----
(***************************************************************************)
(* License checker: the crawl -> extract -> classify pipeline of           *)
(* license_checker (LicenseDetector, RequestManager, DataExtractor,        *)
(* LicenseIdentifier).  Strings are TLA+ strings; the regular expressions  *)
(* of parameters.py are interpreted by a backtracking matcher with         *)
(* Python's priority order (leftmost start, greedy repetition, first       *)
(* alternative first).                                                     *)
(***************************************************************************)
EXTENDS Integers, Sequences, FiniteSets, TLC

\* Python's None, kept apart from the empty string.
None == "<None>"

\* Python truthiness of an optional string: None and "" are falsy.
Truthy(s) == s # None /\ s # ""

----------------------------------------------------------------------------
(* str operations *)

ToLower ==
  ("A" :> "a") @@ ("B" :> "b") @@ ("C" :> "c") @@ ("D" :> "d") @@ ("E" :> "e") @@
  ("F" :> "f") @@ ("G" :> "g") @@ ("H" :> "h") @@ ("I" :> "i") @@ ("J" :> "j") @@
  ("K" :> "k") @@ ("L" :> "l") @@ ("M" :> "m") @@ ("N" :> "n") @@ ("O" :> "o") @@
  ("P" :> "p") @@ ("Q" :> "q") @@ ("R" :> "r") @@ ("S" :> "s") @@ ("T" :> "t") @@
  ("U" :> "u") @@ ("V" :> "v") @@ ("W" :> "w") @@ ("X" :> "x") @@ ("Y" :> "y") @@
  ("Z" :> "z")

CharAt(s, i) == SubSeq(s, i, i)

LowerChar(c) == IF c \in DOMAIN ToLower THEN ToLower[c] ELSE c

RECURSIVE Lower(_)
\* str.lower(), one half of the string after the other
Lower(s) ==
  IF Len(s) <= 1 THEN LowerChar(s)
  ELSE Lower(SubSeq(s, 1, Len(s) \div 2)) \o Lower(SubSeq(s, (Len(s) \div 2) + 1, Len(s)))

\* needle in hay
Contains(hay, needle) ==
  \E i \in 1..(Len(hay) - Len(needle) + 1) :
    SubSeq(hay, i, i + Len(needle) - 1) = needle

StartsWith(s, p) == Len(s) >= Len(p) /\ SubSeq(s, 1, Len(p)) = p

Chars(s) == {CharAt(s, i) : i \in 1..Len(s)}

Whitespace == {" ", "\t", "\n", "\r"}
Digits == Chars("0123456789")
WordChars == Chars("abcdefghijklmnopqrstuvwxyz0123456789_")

\* The k-th smallest element of a set of numbers
Kth(set, k) == CHOOSE c \in set : Cardinality({d \in set : d < c}) = k - 1

\* str.strip(): s without the whitespace it starts with and ends with
Strip(s) ==
  LET inked(i) == CharAt(s, i) \notin Whitespace
  IN IF \A i \in 1..Len(s) : ~inked(i) THEN ""
     ELSE LET lead == CHOOSE n \in 0..Len(s) :
                        inked(n + 1) /\ \A i \in 1..n : ~inked(i)
              trail == CHOOSE n \in 0..Len(s) :
                         inked(Len(s) - n) /\ \A i \in 1..n : ~inked(Len(s) + 1 - i)
          IN SubSeq(s, lead + 1, Len(s) - trail)

RECURSIVE Join(_, _)
\* sep.join(parts)
Join(sep, parts) ==
  IF parts = <<>> THEN ""
  ELSE IF Len(parts) = 1 THEN parts[1]
  ELSE parts[1] \o sep \o Join(sep, Tail(parts))

\* str.split(): the maximal runs of non-whitespace of s
SplitWords(s) ==
  LET inked(i) == i >= 1 /\ i <= Len(s) /\ CharAt(s, i) \notin Whitespace
      starts == {i \in 1..Len(s) : inked(i) /\ ~inked(i - 1)}
      ends == {i \in 1..Len(s) : inked(i) /\ ~inked(i + 1)}
  IN [k \in 1..Cardinality(starts) |-> SubSeq(s, Kth(starts, k), Kth(ends, k))]

RECURSIVE Replace(_, _, _)
\* str.replace(a, b) for a single character a, one half after the other
Replace(s, a, b) ==
  IF Len(s) <= 1 THEN (IF s = a THEN b ELSE s)
  ELSE Replace(SubSeq(s, 1, Len(s) \div 2), a, b)
       \o Replace(SubSeq(s, (Len(s) \div 2) + 1, Len(s)), a, b)

----------------------------------------------------------------------------
(* re: patterns as trees, matched as Python's re matches them *)

Lit(s) == [k |-> "lit", s |-> s]
Cls(cs) == [k |-> "cls", cs |-> cs]
Cat(xs) == [k |-> "cat", xs |-> xs]
Alt(xs) == [k |-> "alt", xs |-> xs]
\* x{lo,hi}, greedy; hi = -1 is no upper limit
Rep(x, lo, hi) == [k |-> "rep", x |-> x, lo |-> lo, hi |-> hi]
Opt(x) == Rep(x, 0, 1)
Star(x) == Rep(x, 0, -1)
Plus(x) == Rep(x, 1, -1)
\* \b
WB == [k |-> "wb"]

\* [\s-] and [-\s]
SpaceDash == Cls(Whitespace \cup {"-"})
\* \s, \w, \d
AnySpace == Cls(Whitespace)
AnyWord == Cls(WordChars)
AnyDigit == Cls(Digits)

IsWordAt(s, i) == i >= 1 /\ i <= Len(s) /\ LowerChar(CharAt(s, i)) \in WordChars

SelectGreater(es, i) == SelectSeq(es, LAMBDA e : e > i)

RECURSIVE Ends(_, _, _)
RECURSIVE EndsFrom(_, _, _)
RECURSIVE EndsAlt(_, _, _)

\* The positions at which a match of r that starts after the first i
\* characters of s can end, in the order backtracking tries them
\* (re.IGNORECASE).
Ends(r, s, i) ==
  CASE r.k = "lit" ->
         IF i + Len(r.s) <= Len(s) /\ Lower(SubSeq(s, i + 1, i + Len(r.s))) = r.s
         THEN <<i + Len(r.s)>> ELSE <<>>
    [] r.k = "cls" ->
         IF i < Len(s) /\ LowerChar(CharAt(s, i + 1)) \in r.cs
         THEN <<i + 1>> ELSE <<>>
    [] r.k = "wb" ->
         IF IsWordAt(s, i) # IsWordAt(s, i + 1) THEN <<i>> ELSE <<>>
    [] r.k = "cat" ->
         IF r.xs = <<>> THEN <<i>>
         ELSE EndsFrom(Cat(Tail(r.xs)), s, Ends(Head(r.xs), s, i))
    [] r.k = "alt" -> EndsAlt(r.xs, s, i)
    [] r.k = "rep" ->
         (IF r.hi # 0
          THEN EndsFrom(Rep(r.x, IF r.lo > 0 THEN r.lo - 1 ELSE 0,
                            IF r.hi > 0 THEN r.hi - 1 ELSE r.hi),
                        s, SelectGreater(Ends(r.x, s, i), i))
          ELSE <<>>)
         \o (IF r.lo = 0 THEN <<i>> ELSE <<>>)

EndsFrom(r, s, starts) ==
  IF starts = <<>> THEN <<>>
  ELSE Ends(r, s, Head(starts)) \o EndsFrom(r, s, Tail(starts))

EndsAlt(xs, s, i) ==
  IF xs = <<>> THEN <<>> ELSE Ends(Head(xs), s, i) \o EndsAlt(Tail(xs), s, i)

\* pattern.search(s) is not None
Matches(r, s) == \E i \in 0..Len(s) : Ends(r, s, i) # <<>>

\* pattern.search(s).group(0): the leftmost match, the first the
\* backtracking finds there.
Group0(r, s) ==
  LET i == CHOOSE j \in 0..Len(s) :
             /\ Ends(r, s, j) # <<>>
             /\ \A h \in 0..(j - 1) : Ends(r, s, h) = <<>>
  IN SubSeq(s, i + 1, Head(Ends(r, s, i)))

----------------------------------------------------------------------------
(* parameters.py *)

USER_AGENT == "MyCrawler/1.0"

\* v?\d+(?:\.\d+)?
VersionNumber == Cat(<<Opt(Lit("v")), Plus(AnyDigit), Opt(Cat(<<Lit("."), Plus(AnyDigit)>>))>>)

MIT_PATTERN ==
  Cat(<<WB, Lit("mit"), Plus(SpaceDash),
        Rep(Cat(<<Plus(AnyWord), Plus(AnySpace)>>), 0, 3),
        Alt(<<Lit("license"), Lit("variant")>>)>>)

APACHE_PATTERN ==
  Cat(<<WB, Lit("apache"), Plus(SpaceDash),
        Alt(<<Cat(<<Lit("license"), Star(SpaceDash), Opt(VersionNumber)>>),
              VersionNumber>>),
        WB>>)

\* \d\.\d
CC_VERSION_NUMBER == Cat(<<AnyDigit, Lit("."), AnyDigit>>)

CC_PATTERN ==
  Cat(<<WB,
        Alt(<<
          Cat(<<Lit("cc"), Plus(SpaceDash),
                Plus(Cat(<<Alt(<<Lit("by"), Lit("attribution"), Lit("sa"),
                                 Cat(<<Lit("share"), Opt(SpaceDash), Lit("alike")>>),
                                 Lit("nc"),
                                 Cat(<<Lit("non"), Opt(SpaceDash), Lit("commercial")>>),
                                 Lit("nd"),
                                 Cat(<<Lit("no"), Opt(SpaceDash), Lit("derivatives")>>)>>),
                           Opt(SpaceDash)>>)),
                Opt(CC_VERSION_NUMBER)>>),
          Cat(<<Lit("creative"), Plus(SpaceDash), Lit("commons"), Star(SpaceDash),
                Star(Cat(<<Alt(<<Lit("attribution"),
                                 Cat(<<Lit("share"), Opt(SpaceDash), Lit("alike")>>),
                                 Cat(<<Lit("non"), Opt(SpaceDash), Lit("commercial")>>),
                                 Cat(<<Lit("no"), Opt(SpaceDash), Lit("derivatives")>>),
                                 Lit("by"), Lit("sa"), Lit("nc"), Lit("nd")>>),
                           Star(SpaceDash)>>)),
                Opt(CC_VERSION_NUMBER)>>),
          Lit("cc0")>>),
        WB>>)

GPL_PATTERN ==
  Cat(<<WB,
        Alt(<<
          Cat(<<Lit("gnu"), Plus(SpaceDash), Opt(Alt(<<Lit("a"), Lit("l")>>)),
                Lit("gpl")>>),
          Cat(<<Opt(Alt(<<Lit("a"), Lit("l")>>)), Lit("gpl"), Star(SpaceDash),
                VersionNumber>>),
          Cat(<<Lit("general"), Plus(AnySpace), Lit("public"), Plus(AnySpace), Lit("license")>>)>>),
        WB>>)

BSD_PATTERN ==
  Cat(<<WB, Lit("bsd"), Plus(SpaceDash),
        Alt(<<Cat(<<Plus(AnyDigit), SpaceDash, Lit("clause")>>), Lit("license")>>),
        WB>>)

\* The keys of LICENSE_PATTERNS, in the dictionary's order.
PATTERN_NAMES ==
  <<"MIT License", "Apache License", "Creative Commons (CC)", "GNU GPL",
    "BSD License">>

LICENSE_PATTERNS ==
  [n \in {PATTERN_NAMES[i] : i \in DOMAIN PATTERN_NAMES} |->
     CASE n = "MIT License" -> MIT_PATTERN
       [] n = "Apache License" -> APACHE_PATTERN
       [] n = "Creative Commons (CC)" -> CC_PATTERN
       [] n = "GNU GPL" -> GPL_PATTERN
       [] n = "BSD License" -> BSD_PATTERN]

CC_VERSIONS == <<"1.0", "2.0", "2.5", "3.0", "4.0">>

CC_TYPES == <<"BY", "BY-SA", "BY-ND", "BY-NC", "BY-NC-SA", "BY-NC-ND">>

CC_TYPE_MAP ==
  ("attribution" :> "BY") @@ ("by" :> "BY") @@
  ("noncommercial" :> "NC") @@ ("non-commercial" :> "NC") @@ ("nc" :> "NC") @@
  ("sharealike" :> "SA") @@ ("share-alike" :> "SA") @@ ("sa" :> "SA") @@
  ("noderivatives" :> "ND") @@ ("no-derivatives" :> "ND") @@ ("nd" :> "ND")

\* "licensing" "use" are adjacent literals, which Python concatenates.
RELEVANT_LINKS_KEYWORDS ==
  <<"terms", "legal", "license", "licensinguse", "policy", "copyright">>

RELEVANT_TEXT_KEYWORDS ==
  <<"intellectual property", "right", "authorised", "commercial use",
    "non-commercial use", "fair use", "license", "copyright",
    "creative commons", "cc by", "gpl", "apache", "mit", "bsd">>

SeqRange(q) == {q[i] : i \in DOMAIN q}

----------------------------------------------------------------------------
(* license_identifier.py: LicenseIdentifier *)

\* _check_for_cc0 without its two text tests: property C9_Cc0FromLink tells
\* the two apart.
_check_for_cc0_url_only(url_lower, text_lower) ==
  IF Contains(url_lower, "publicdomain/zero") THEN "CC0" ELSE None

\* "CC0" if the URL or the text names the public-domain dedication, else None
_check_for_cc0(url_lower, text_lower) ==
  IF \/ Contains(url_lower, "publicdomain/zero")
     \/ Contains(text_lower, "cc0")
     \/ Contains(text_lower, "creative commons zero")
  THEN "CC0" ELSE None

\* The 30 pairs with the loops swapped, CC_TYPES outside and CC_VERSIONS
\* inside: property C23_VersionMajor tells it from UrlScanOrder.
UrlScanOrder_type_major ==
  [n \in 1..(Len(CC_VERSIONS) * Len(CC_TYPES)) |->
     [version |-> CC_VERSIONS[((n - 1) % Len(CC_VERSIONS)) + 1],
      cc_type |-> CC_TYPES[((n - 1) \div Len(CC_VERSIONS)) + 1]]]

\* The (version, type) pairs in the order the two nested loops visit them:
\* the outer loop runs over CC_VERSIONS, the inner one over CC_TYPES.
UrlScanOrder ==
  [n \in 1..(Len(CC_VERSIONS) * Len(CC_TYPES)) |->
     [version |-> CC_VERSIONS[((n - 1) \div Len(CC_TYPES)) + 1],
      cc_type |-> CC_TYPES[((n - 1) % Len(CC_TYPES)) + 1]]]

cc_pattern_url(p) == "licenses/" \o Lower(p.cc_type) \o "/" \o p.version

_extract_license_from_url(url_lower) ==
  LET hits == {n \in DOMAIN UrlScanOrder :
                 Contains(url_lower, cc_pattern_url(UrlScanOrder[n]))}
  IN IF hits = {} THEN None
     ELSE LET n == CHOOSE m \in hits : \A h \in hits : m <= h
          IN "CC-" \o UrlScanOrder[n].cc_type \o "-" \o UrlScanOrder[n].version

RECURSIVE MapWords_backwards(_)
\* The loop of _process_cc_type_text putting each mapped word before the
\* ones it has: property C22_TextPattern tells it from MapWords.
MapWords_backwards(words) ==
  IF words = <<>> THEN <<>>
  ELSE MapWords_backwards(Tail(words))
       \o (IF Head(words) \in DOMAIN CC_TYPE_MAP THEN <<CC_TYPE_MAP[Head(words)]>>
           ELSE IF Head(words) \in SeqRange(CC_VERSIONS) THEN <<Head(words)>>
           ELSE <<>>)

RECURSIVE MapWords(_)
\* The loop of _process_cc_type_text: a word of CC_TYPE_MAP gives its
\* abbreviation, a word of CC_VERSIONS stays, any other word is dropped.
MapWords(words) ==
  IF words = <<>> THEN <<>>
  ELSE (IF Head(words) \in DOMAIN CC_TYPE_MAP THEN <<CC_TYPE_MAP[Head(words)]>>
        ELSE IF Head(words) \in SeqRange(CC_VERSIONS) THEN <<Head(words)>>
        ELSE <<>>) \o MapWords(Tail(words))

_process_cc_type_text(type_str) ==
  IF type_str = "" THEN ""
  ELSE Join("-", MapWords(SplitWords(Replace(Lower(type_str), "-", " "))))

_extract_license_from_text(text_lower) ==
  IF Matches(CC_PATTERN, text_lower)
  THEN LET cc_type == _process_cc_type_text(Group0(CC_PATTERN, text_lower))
       IN IF cc_type = "" THEN None ELSE "CC-" \o cc_type
  ELSE None

\* determine_cc_license with the URL pattern consulted before the CC0 check:
\* property C8_Cc0First tells the two apart.
determine_cc_license_url_first(url, text) ==
  IF ~Truthy(url) /\ ~Truthy(text) THEN "Unknown"
  ELSE LET url_lower == IF Truthy(url) THEN Lower(url) ELSE ""
           text_lower == IF Truthy(text) THEN Lower(text) ELSE ""
           cc0_result == _check_for_cc0(url_lower, text_lower)
           specific_license == _extract_license_from_url(url_lower)
           extracted_license == _extract_license_from_text(text_lower)
       IN IF specific_license # None THEN specific_license
          ELSE IF cc0_result # None THEN cc0_result
          ELSE IF extracted_license # None THEN extracted_license
          ELSE "Unknown"

\* determine_cc_license falling back on the MIT pattern before it gives up:
\* property C24_OnlyCcTypes tells it from determine_cc_license.
determine_cc_license_mit(url, text) ==
  IF ~Truthy(url) /\ ~Truthy(text) THEN "Unknown"
  ELSE LET url_lower == IF Truthy(url) THEN Lower(url) ELSE ""
           text_lower == IF Truthy(text) THEN Lower(text) ELSE ""
           cc0_result == _check_for_cc0(url_lower, text_lower)
           specific_license == _extract_license_from_url(url_lower)
           extracted_license == _extract_license_from_text(text_lower)
       IN IF cc0_result # None THEN cc0_result
          ELSE IF specific_license # None THEN specific_license
          ELSE IF extracted_license # None THEN extracted_license
          ELSE IF Matches(MIT_PATTERN, text_lower) THEN "MIT License"
          ELSE "Unknown"

\* determine_cc_license, lines 27-39: the CC0 check, then the URL, then the text
determine_cc_license(url, text) ==
  IF ~Truthy(url) /\ ~Truthy(text) THEN "Unknown"
  ELSE LET url_lower == IF Truthy(url) THEN Lower(url) ELSE ""
           text_lower == IF Truthy(text) THEN Lower(text) ELSE ""
           cc0_result == _check_for_cc0(url_lower, text_lower)
           specific_license == _extract_license_from_url(url_lower)
           extracted_license == _extract_license_from_text(text_lower)
       IN IF cc0_result # None THEN cc0_result
          ELSE IF specific_license # None THEN specific_license
          ELSE IF extracted_license # None THEN extracted_license
          ELSE "Unknown"

\* The set behind the list extract_licenses returns.
extract_licenses(text) ==
  IF ~Truthy(text) THEN {}
  ELSE {n \in DOMAIN LICENSE_PATTERNS : Matches(LICENSE_PATTERNS[n], text)}

----------------------------------------------------------------------------
(* urllib.parse and validators, as far as the pipeline uses them *)

\* The index of the first occurrence of needle in s at or after from, 0 if none.
Find(s, needle, from) ==
  LET hits == {i \in from..(Len(s) - Len(needle) + 1) :
                 SubSeq(s, i, i + Len(needle) - 1) = needle}
  IN IF hits = {} THEN 0 ELSE CHOOSE i \in hits : \A j \in hits : i <= j

\* The index of the last "/" of s, 0 if none.
LastSlash(s) ==
  LET hits == {i \in 1..Len(s) : CharAt(s, i) = "/"}
  IN IF hits = {} THEN 0 ELSE CHOOSE i \in hits : \A j \in hits : i >= j

\* Where the network location of an absolute URL starts (after "://").
NetlocStart(url) == Find(url, "://", 1) + 3

\* Where the path of an absolute URL starts: the first "/" after the network
\* location, or one past the end when the URL has no path.
PathStart(url) ==
  LET i == Find(url, "/", NetlocStart(url))
  IN IF i = 0 THEN Len(url) + 1 ELSE i

\* validators.url(url): an http(s) scheme, a dotted host, no whitespace.
validators_url(url) ==
  /\ StartsWith(url, "http://") \/ StartsWith(url, "https://")
  /\ PathStart(url) > NetlocStart(url)
  /\ Contains(SubSeq(url, NetlocStart(url), PathStart(url) - 1), ".")
  /\ Chars(url) \cap Whitespace = {}

_validate_url(url) == IF Truthy(url) THEN validators_url(url) ELSE FALSE

\* f"{parsed.scheme}://{parsed.netloc}"
_normalize_url(url) == SubSeq(url, 1, PathStart(url) - 1)

\* urlparse(url).path
UrlPath(url) == SubSeq(url, PathStart(url), Len(url))

\* urljoin(base, ref) for the references the pages use: an absolute URL, an
\* absolute path, or a path relative to the directory of base.
urljoin(base, ref) ==
  IF StartsWith(ref, "http://") \/ StartsWith(ref, "https://") THEN ref
  ELSE IF StartsWith(ref, "/") THEN _normalize_url(base) \o ref
  ELSE IF UrlPath(base) = "" THEN base \o "/" \o ref
  ELSE SubSeq(base, 1, LastSlash(base)) \o ref

----------------------------------------------------------------------------
(* data_extractor.py: DataExtractor *)

request_delay == 1

_contains_keyword(text, keywords) ==
  IF text = "" \/ keywords = <<>> THEN FALSE
  ELSE LET text_lower == Lower(text)
       IN \E i \in DOMAIN keywords : Contains(text_lower, Lower(keywords[i]))

_contains_pattern(text, patterns) ==
  IF text = "" THEN FALSE
  ELSE LET text_lower == Lower(text)
       IN \E n \in DOMAIN patterns : Matches(patterns[n], text_lower)

\* All anchors of all footers, in document order.
RECURSIVE FooterAnchors(_)
FooterAnchors(footers) ==
  IF footers = <<>> THEN <<>> ELSE Head(footers) \o FooterAnchors(Tail(footers))

RECURSIVE ScanAnchors_last_wins(_, _, _)
\* The loops of extract_footer_links without the "not license_link" test, a
\* later matching anchor replacing an earlier one: property
\* C12_FirstLinkedMatch tells it from ScanAnchors.
ScanAnchors_last_wins(anchors, base_url, acc) ==
  IF anchors = <<>> THEN acc
  ELSE LET link == Head(anchors)
           absolute_url == urljoin(base_url, link.href)
           text == Strip(link.text)
       IN IF ~Truthy(link.href) THEN ScanAnchors_last_wins(Tail(anchors), base_url, acc)
          ELSE IF _contains_pattern(text, LICENSE_PATTERNS)
          THEN ScanAnchors_last_wins(Tail(anchors), base_url,
                 [acc EXCEPT !.license_link = absolute_url, !.license_text = text])
          ELSE IF _contains_keyword(text, RELEVANT_LINKS_KEYWORDS)
          THEN ScanAnchors_last_wins(Tail(anchors), base_url,
                 [acc EXCEPT !.relevant_links = @ \cup {absolute_url}])
          ELSE ScanAnchors_last_wins(Tail(anchors), base_url, acc)

RECURSIVE ScanAnchors_no_continue(_, _, _)
\* The loops of extract_footer_links without the "continue" after the
\* license link is captured, the captured anchor going on to the keyword
\* test: property C13_RelevantLinks tells it from ScanAnchors.
ScanAnchors_no_continue(anchors, base_url, acc) ==
  IF anchors = <<>> THEN acc
  ELSE LET link == Head(anchors)
           absolute_url == urljoin(base_url, link.href)
           text == Strip(link.text)
           captured == acc.license_link = "" /\ _contains_pattern(text, LICENSE_PATTERNS)
           relevant == _contains_keyword(text, RELEVANT_LINKS_KEYWORDS)
       IN IF ~Truthy(link.href) THEN ScanAnchors_no_continue(Tail(anchors), base_url, acc)
          ELSE ScanAnchors_no_continue(Tail(anchors), base_url,
                 [license_link |-> IF captured THEN absolute_url ELSE acc.license_link,
                  license_text |-> IF captured THEN text ELSE acc.license_text,
                  relevant_links |-> IF relevant THEN acc.relevant_links \cup {absolute_url}
                                     ELSE acc.relevant_links])

RECURSIVE ScanAnchors(_, _, _)
\* The two nested loops of extract_footer_links, acc holding license_link,
\* license_text and relevant_links as the loop has set them so far.
ScanAnchors(anchors, base_url, acc) ==
  IF anchors = <<>> THEN acc
  ELSE LET link == Head(anchors)
           absolute_url == urljoin(base_url, link.href)
           text == Strip(link.text)
       IN IF ~Truthy(link.href) THEN ScanAnchors(Tail(anchors), base_url, acc)
          ELSE IF acc.license_link = "" /\ _contains_pattern(text, LICENSE_PATTERNS)
          THEN ScanAnchors(Tail(anchors), base_url,
                 [acc EXCEPT !.license_link = absolute_url, !.license_text = text])
          ELSE IF _contains_keyword(text, RELEVANT_LINKS_KEYWORDS)
          THEN ScanAnchors(Tail(anchors), base_url,
                 [acc EXCEPT !.relevant_links = @ \cup {absolute_url}])
          ELSE ScanAnchors(Tail(anchors), base_url, acc)

\* license_link, license_text and the set relevant_links; the caller turns
\* the set into a list.
extract_footer_links(soup, base_url) ==
  IF base_url = "" THEN [license_link |-> "", license_text |-> "", relevant_links |-> {}]
  ELSE ScanAnchors(FooterAnchors(soup.footers), base_url,
         [license_link |-> "", license_text |-> "", relevant_links |-> {}])

\* re.split(r'\.(?=\s|$)', text): cut at each period that whitespace or the
\* end of the text follows.
SplitSentences(s) ==
  LET cuts == {i \in 1..Len(s) :
                 CharAt(s, i) = "." /\ (i = Len(s) \/ CharAt(s, i + 1) \in Whitespace)}
      from(k) == IF k = 1 THEN 1 ELSE Kth(cuts, k - 1) + 1
      to(k) == IF k = Cardinality(cuts) + 1 THEN Len(s) ELSE Kth(cuts, k) - 1
  IN [k \in 1..(Cardinality(cuts) + 1) |-> SubSeq(s, from(k), to(k))]

RECURSIVE RelevantSentences(_)
RelevantSentences(parts) ==
  IF parts = <<>> THEN <<>>
  ELSE (IF _contains_keyword(Strip(Head(parts)), RELEVANT_TEXT_KEYWORDS)
        THEN <<Strip(Head(parts))>> ELSE <<>>) \o RelevantSentences(Tail(parts))

RECURSIVE ElementSentences(_)
ElementSentences(elements) ==
  IF elements = <<>> THEN <<>>
  ELSE RelevantSentences(SplitSentences(Strip(Head(elements))))
       \o ElementSentences(Tail(elements))

extract_relevant_text(soup) == Join(". ", ElementSentences(soup.elements))

----------------------------------------------------------------------------
(* The web the detector crawls: what each URL answers to a GET.             *)
(* exc is the exception session.get raises (None if it answers), status    *)
(* the status code, kind what the body holds: "html" (footers: the anchors  *)
(* of each footer element, elements: the text of each p, li and span),      *)
(* "robots" (groups: the user-agent groups of a robots.txt), "garbage" (a   *)
(* body Protego.parse rejects) or "empty".                                  *)

Response(exc, status, kind, footers, elements, groups) ==
  [exc |-> exc, status |-> status, kind |-> kind, footers |-> footers,
   elements |-> elements, groups |-> groups]

Html(footers, elements) == Response(None, 200, "html", footers, elements, <<>>)
EmptyBody == Response(None, 200, "empty", <<>>, <<>>, <<>>)
NotFound == Response(None, 404, "empty", <<>>, <<>>, <<>>)
ConnectionError == Response("ConnectionError", 0, "empty", <<>>, <<>>, <<>>)
Timeout == Response("Timeout", 0, "empty", <<>>, <<>>, <<>>)
RobotsTxt(groups) == Response(None, 200, "robots", <<>>, <<>>, groups)
Garbage == Response(None, 200, "garbage", <<>>, <<>>, <<>>)

Anchor(href, text) == [href |-> href, text |-> text]
Group(agent, disallow, allow) == [agent |-> agent, disallow |-> disallow, allow |-> allow]

CC_BY_URL == "https://creativecommons.org/licenses/by/4.0/"
CC_BY_NC_URL == "https://creativecommons.org/licenses/by-nc/3.0/"
CC_BY_SA_URL == "https://creativecommons.org/licenses/by-sa/4.0/"
CC_ZERO_URL == "https://creativecommons.org/publicdomain/zero/1.0/"

Web ==
  \* blocked.org: every crawler is disallowed
  ("https://blocked.org/robots.txt" :> RobotsTxt(<<Group("*", {"/"}, {})>>)) @@
  ("https://blocked.org/" :>
     Html(<<<<Anchor("/terms", "Terms")>>>>, <<>>)) @@
  ("https://blocked.org/terms" :> Html(<<>>, <<"MIT License applies.">>)) @@
  \* down.org: nothing answers
  ("https://down.org/robots.txt" :> ConnectionError) @@
  ("https://down.org/" :> ConnectionError) @@
  \* empty.org: an empty front page
  ("https://empty.org/robots.txt" :> RobotsTxt(<<Group("*", {"/private"}, {})>>)) @@
  ("https://empty.org/" :> EmptyBody) @@
  \* x.org: a footer with an MIT license link; MJ12bot is disallowed
  ("https://x.org/robots.txt" :>
     RobotsTxt(<<Group("mj12bot", {"/"}, {}), Group("*", {"/admin"}, {"/"})>>)) @@
  ("https://x.org/" :>
     Html(<<<<Anchor("/license", " MIT License "), Anchor("/terms", "Terms of Use"),
              Anchor(None, "Legal")>>,
            <<Anchor("/gpl", "GNU GPL v3")>>>>,
          <<"Welcome. Everything here is CC0.">>)) @@
  ("https://x.org/terms" :>
     Html(<<>>, <<"This site is licensed under the MIT License. Contact us.",
                  "All rights reserved">>)) @@
  \* cc.org: a CC BY license link; a legal page that mentions CC0
  ("https://cc.org/robots.txt" :> Timeout) @@
  ("https://cc.org/a/" :>
     Html(<<<<Anchor(CC_BY_URL, "CC BY 4.0"), Anchor("legal.html", "Legal notice")>>>>, <<>>)) @@
  ("https://cc.org/a/legal.html" :> Html(<<>>, <<"Photos are licensed as CC0.">>)) @@
  \* zero.org: a CC0 license link, no other footer link
  ("https://zero.org/robots.txt" :> Garbage) @@
  ("https://zero.org/" :> Html(<<<<Anchor(CC_ZERO_URL, "CC0 1.0 Universal")>>>>, <<>>)) @@
  \* mix.org: a CC BY-SA link whose text also names CC0
  ("https://mix.org/robots.txt" :> RobotsTxt(<<>>)) @@
  ("https://mix.org/" :>
     Html(<<<<Anchor(CC_BY_SA_URL, "CC BY-SA 4.0 (data: CC0)")>>>>, <<>>)) @@
  \* odd.org: the link's URL, its text and the legal page name three licenses
  ("https://odd.org/" :>
     Html(<<<<Anchor(CC_BY_NC_URL, "Creative Commons Attribution-ShareAlike 4.0"),
              Anchor("/legal", "Legal")>>>>, <<>>)) @@
  ("https://odd.org/legal" :> Html(<<>>, <<"Icons: CC BY-ND 2.0 license.">>)) @@
  \* unk.org: no license link; the copyright page names a CC license
  ("https://unk.org/" :>
     Html(<<<<Anchor("/copyright", "Copyright"), Anchor("/policy", "Privacy Policy"),
              Anchor("/about", "About")>>>>, <<>>)) @@
  ("https://unk.org/copyright" :>
     Html(<<>>, <<"Text is available under the Creative Commons Attribution-ShareAlike 4.0 license.">>)) @@
  ("https://unk.org/policy" :> Html(<<>>, <<"We use cookies.">>)) @@
  \* pd.org: a BSD license link; the legal page names Creative Commons Zero
  ("https://pd.org/" :>
     Html(<<<<Anchor("/bsd", "BSD License"), Anchor("/legal", "Legal")>>>>, <<>>)) @@
  ("https://pd.org/legal" :>
     Html(<<>>, <<"Data: Creative Commons Zero. Code: Apache License 2.0.">>)) @@
  \* partial.org: one of the two relevant links is gone
  ("https://partial.org/" :>
     Html(<<<<Anchor("/terms", "Terms"), Anchor("/legal", "Legal")>>>>, <<>>)) @@
  ("https://partial.org/legal" :> Html(<<>>, <<"Licensed under the BSD 3-Clause License.">>)) @@
  \* bare.org: an MIT license link and no other footer link; the page itself
  \* names other licenses
  ("https://bare.org/" :>
     Html(<<<<Anchor("/LICENSE.txt", "MIT License")>>>>,
          <<"Photos on this site are CC0.", "Icons: CC BY 4.0 license. Fonts: Apache License 2.0.">>)) @@
  \* many.org: two anchors for the same terms page, which robots.txt
  \* disallows, and a link to another host; the two pages name two licenses
  ("https://many.org/robots.txt" :> RobotsTxt(<<Group("*", {"/terms"}, {})>>)) @@
  ("https://many.org/" :>
     Html(<<<<Anchor("/terms", "Terms"), Anchor("/terms", "Terms and conditions")>>,
            <<Anchor("https://unk.org/copyright", "Copyright")>>>>, <<>>)) @@
  ("https://many.org/terms" :>
     Html(<<>>, <<"Images: CC BY 4.0 license. MIT License for code. The MIT license is short.">>))

\* The answer to a GET of url; a URL the web does not know is a 404.
Get(url) == IF url \in DOMAIN Web THEN Web[url] ELSE NotFound

\* The strings a caller passes as sites.
SiteInputs ==
  {"", "not a url", "https://blocked.org/", "https://down.org/",
   "https://empty.org/", "https://x.org/", "https://cc.org/a/",
   "https://zero.org/", "https://mix.org/", "https://odd.org/",
   "https://unk.org/", "https://pd.org/", "https://partial.org/",
   "https://many.org/", "https://bare.org/"}

UserAgents == {USER_AGENT, "MJ12bot"}

\* The longest batch a caller passes.
MaxSites == 2

----------------------------------------------------------------------------
(* request_manager.py: RequestManager *)

\* Protego: the group whose agent token the user agent contains, the longest
\* token first; "*" matches every user agent.
MatchingGroups(groups, ua) ==
  {i \in DOMAIN groups :
     groups[i].agent = "*" \/ Contains(Lower(ua), groups[i].agent)}

LongestLen(paths) ==
  IF paths = {} THEN 0
  ELSE Len(CHOOSE p \in paths : \A o \in paths : Len(p) >= Len(o))

\* Protego's can_fetch: the longest rule that is a prefix of the URL's path
\* decides, Allow winning a tie; no matching rule allows.
can_fetch(groups, url, ua) ==
  LET m == MatchingGroups(groups, ua)
      path == IF UrlPath(url) = "" THEN "/" ELSE UrlPath(url)
  IN IF m = {} THEN TRUE
     ELSE LET g == groups[CHOOSE i \in m :
                            \A j \in m : Len(groups[i].agent) >= Len(groups[j].agent)]
              dis == {p \in g.disallow : StartsWith(path, p)}
              alw == {p \in g.allow : StartsWith(path, p)}
          IN dis = {} \/ LongestLen(alw) >= LongestLen(dis)

\* The URL fetch_robots requests.
robots_url(url) == urljoin(url, "/robots.txt")

\* fetch_robots: the parsed robots.txt, or parsed = FALSE for None
\* (an exception of session.get or of Protego.parse, a status other than 200).
fetch_robots(url) ==
  LET response == Get(robots_url(url))
  IN IF response.exc = None /\ response.status = 200 /\ response.kind = "robots"
     THEN [parsed |-> TRUE, groups |-> response.groups]
     ELSE [parsed |-> FALSE, groups |-> <<>>]

\* is_allowed_by_robots asking Protego about the default USER_AGENT instead
\* of self.user_agent: property C3_RobotsBlock tells the two apart.
is_allowed_default_agent(url, ua) ==
  IF url = "" THEN FALSE
  ELSE LET robots == fetch_robots(url)
       IN IF robots.parsed THEN can_fetch(robots.groups, url, USER_AGENT) ELSE TRUE

\* is_allowed_by_robots refusing when fetch_robots returned None: property
\* C7_RobotsFailOpen tells the two apart.
is_allowed_fail_closed(url, ua) ==
  IF url = "" THEN FALSE
  ELSE LET robots == fetch_robots(url)
       IN IF robots.parsed THEN can_fetch(robots.groups, url, ua) ELSE FALSE

\* is_allowed_by_robots: "if not url: return False", then the verdict of the
\* parsed robots.txt, or True when there is none
is_allowed_by_robots(url, ua) ==
  IF url = "" THEN FALSE
  ELSE LET robots == fetch_robots(url)
       IN IF robots.parsed THEN can_fetch(robots.groups, url, ua) ELSE TRUE

\* fetch_page: raised is the message of the exception that session.get or
\* raise_for_status raises (None if neither does), content the body.
fetch_page(url) ==
  LET response == Get(url)
  IN IF response.exc # None THEN [raised |-> response.exc, content |-> response]
     ELSE IF response.status >= 400
          THEN [raised |-> "HTTPError", content |-> response]
          ELSE [raised |-> None, content |-> response]

\* "not content" for the body of a response
IsEmpty(body) == body.kind = "empty"

----------------------------------------------------------------------------
(* license_detector.py: LicenseDetector, one scan_websites call at a time *)

VARIABLES
  user_agent,        \* request_manager.user_agent
  session_ua,        \* request_manager.session.headers["User-Agent"]
  all_data,          \* self.all_data
  sites,             \* the argument of the running call
  idx,               \* the position of the for loop in sites
  pc,                \* where the running call stands; at "returned" the call
                     \* has returned self.all_data
  content,           \* _process_website: the primary page
  license_link,      \* _process_website: license_link
  license_text,      \* _process_website: license_text
  license_type,      \* _process_website: license_type
  relevant_links,    \* _process_website: relevant_links, a list
  combined_content,  \* process_relevant_links: combined_content
  link_i,            \* process_relevant_links: the position of its for loop
  trace,             \* the requests and sleeps of the running call, in order
  cc_url, cc_text, cc_label, cc_pc,  \* one determine_cc_license call
  fl_soup, fl_base_url, fl_found, fl_pc,  \* one extract_footer_links call
  el_text, el_found, el_pc,          \* one extract_licenses call
  kept               \* the list an earlier scan_websites call returned and
                     \* its caller still holds, None if there is none

manager == <<user_agent, session_ua>>
locals == <<content, license_link, license_text, license_type, relevant_links,
            combined_content, link_i>>
call == <<cc_url, cc_text, cc_label, cc_pc, fl_soup, fl_base_url, fl_found, fl_pc,
          el_text, el_found, el_pc, kept>>
vars == <<manager, all_data, sites, idx, pc, locals, trace, call>>

\* A sites argument: None, or a list.
SiteArg(is_none, items) == [is_none |-> is_none, items |-> items]

Lists(S, n) == UNION {[1..m -> S] : m \in 0..n}

SiteArgs ==
  {SiteArg(TRUE, <<>>)} \cup {SiteArg(FALSE, l) : l \in Lists(SiteInputs, MaxSites)}

\* list(relevant_links) of a collection that kept an entry for each anchor,
\* the same URL coming up more than once: property C15_NoDuplicates tells it
\* from Orders.
Orders_repeating(set) == [1..Cardinality(set) -> set]

\* The orders in which list(relevant_links) can enumerate the set.
Orders(set) ==
  {l \in [1..Cardinality(set) -> set] : \A i, j \in DOMAIN l : l[i] = l[j] => i = j}

\* The dictionary _process_website starts from.
DefaultResult(url) ==
  [website |-> url, invalidUrl |-> FALSE, blockedByRobotsTxt |-> FALSE,
   licenseLink |-> None, licenseType |-> None, relevantLinks |-> <<>>,
   licenseMentions |-> {}, content |-> None]

\* The dictionary the except clause of scan_websites appends.
ErrorResult(url, e) == [website |-> url, error |-> e]

GetEvent(i, url, ua) == [site |-> i, op |-> "GET", url |-> url, ua |-> ua]
SleepEvent(i, delay) == [site |-> i, op |-> "sleep", url |-> None, ua |-> None,
                         delay |-> delay]

url == sites.items[idx]

\* A result whose licenseType always comes from the aggregated text:
\* property C10_UrlPattern tells it from FullResult.
FullResult_always_reclassify(u, link, type, links, text) ==
  [DefaultResult(u) EXCEPT
     !.licenseLink = link,
     !.licenseType = determine_cc_license("", text),
     !.relevantLinks = links,
     !.content = text,
     !.licenseMentions = extract_licenses(text)]

\* The result _process_website builds after process_relevant_links returned
\* the joined text.
FullResult(u, link, type, links, text) ==
  [DefaultResult(u) EXCEPT
     !.licenseLink = link,
     !.licenseType = (IF type = "Unknown" THEN determine_cc_license("", text) ELSE type),
     !.relevantLinks = links,
     !.content = text,
     !.licenseMentions = extract_licenses(text)]

----------------------------------------------------------------------------
(* A site scanned on its own: what _process_website(u), run to its end in   *)
(* one piece under the except clause of scan_websites, appends.  The set    *)
(* holds one record for each order of list(relevant_links).                 *)

RECURSIVE process_relevant_links(_, _)
\* The for loop of process_relevant_links over links, texts being
\* combined_content so far: the exception that ends it, or the joined text.
process_relevant_links(links, texts) ==
  IF links = <<>> THEN [raised |-> None, text |-> Join(" ", texts)]
  ELSE LET page == fetch_page(Head(links))
           extracted == extract_relevant_text(page.content)
       IN IF page.raised # None THEN [raised |-> page.raised, text |-> ""]
          ELSE process_relevant_links(Tail(links),
                 IF ~IsEmpty(page.content) /\ extracted # ""
                 THEN Append(texts, extracted) ELSE texts)

_process_website(u, ua) ==
  IF ~_validate_url(u) THEN {[DefaultResult(u) EXCEPT !.invalidUrl = TRUE]}
  ELSE IF ~is_allowed_by_robots(_normalize_url(u), ua)
  THEN {[DefaultResult(u) EXCEPT !.blockedByRobotsTxt = TRUE]}
  ELSE LET page == fetch_page(u)
       IN IF page.raised # None THEN {ErrorResult(u, page.raised)}
          ELSE IF IsEmpty(page.content) THEN {DefaultResult(u)}
          ELSE LET found == extract_footer_links(page.content, u)
                   type == determine_cc_license(found.license_link, found.license_text)
               IN {LET rest == process_relevant_links(order, <<>>)
                   IN IF rest.raised # None THEN ErrorResult(u, rest.raised)
                      ELSE FullResult(u, found.license_link, type, order, rest.text)
                   : order \in Orders(found.relevant_links)}

\* _process_website for every input and user agent: the triples <<u, ua, r>>
\* with r a record that _process_website(u) can return under user agent ua
Alone ==
  UNION {{<<u, ua, r>> : r \in _process_website(u, ua)} :
           u \in SiteInputs, ua \in UserAgents}

----------------------------------------------------------------------------
(* The pure steps of a scan for the pages of Web.  Each table is a         *)
(* constant, evaluated once; an action looks the result of a step up and   *)
(* computes it only for arguments the table does not hold.                 *)

\* The value the table holds for key, else value
Cached(table, key, value) ==
  IF \E t \in table : t[1] = key
  THEN (CHOOSE t \in table : t[1] = key)[2]
  ELSE value

\* The inputs whose page is served as HTML
ScannedPages == {u \in SiteInputs : _validate_url(u) /\ Get(u).kind = "html"}

\* is_allowed_by_robots for every base URL and user agent
RobotsTable ==
  {<<<<_normalize_url(u), ua>>, is_allowed_by_robots(_normalize_url(u), ua)>> :
     u \in {v \in SiteInputs : _validate_url(v)}, ua \in UserAgents}

\* extract_footer_links for every page and its URL
FooterLinksTable ==
  {<<<<Get(u), u>>, extract_footer_links(Get(u), u)>> : u \in ScannedPages}

\* determine_cc_license for every license link and text found
LinkTypeTable ==
  {<<<<f.license_link, f.license_text>>,
     determine_cc_license(f.license_link, f.license_text)>> :
     f \in {t[2] : t \in FooterLinksTable}}

\* extract_relevant_text for every page behind a relevant link
RelevantTextTable ==
  {<<Get(l), extract_relevant_text(Get(l))>> :
     l \in UNION {t[2].relevant_links : t \in FooterLinksTable}}

\* The arguments of FullResult for every site and every order of its
\* relevant links
FullResultKeys ==
  UNION {{<<t[1][2], t[2].license_link,
            Cached(LinkTypeTable, <<t[2].license_link, t[2].license_text>>, None),
            o, process_relevant_links(o, <<>>).text>> :
            o \in Orders(t[2].relevant_links)} : t \in FooterLinksTable}

FullResultTable ==
  {<<k, FullResult(k[1], k[2], k[3], k[4], k[5])>> : k \in FullResultKeys}

FreshLocals ==
  /\ content = NotFound
  /\ license_link = None
  /\ license_text = None
  /\ license_type = None
  /\ relevant_links = <<>>
  /\ combined_content = <<>>
  /\ link_i = 0

InitCall == cc_url = None /\ cc_text = None /\ cc_label = None /\ cc_pc = "off"

InitFooterCall ==
  fl_soup = None /\ fl_base_url = None /\ fl_found = None /\ fl_pc = "off"

InitMentionsCall == el_text = None /\ el_found = {} /\ el_pc = "off"

\* LicenseDetector(user_agent): RequestManager.__init__ falls back to USER_AGENT.
Init ==
  /\ \E arg \in {None, "MJ12bot"} :
       /\ user_agent = (IF Truthy(arg) THEN arg ELSE USER_AGENT)
       /\ session_ua = (IF Truthy(arg) THEN arg ELSE USER_AGENT)
  /\ all_data = <<>>
  /\ kept = None
  /\ sites = SiteArg(FALSE, <<>>)
  /\ idx = 0
  /\ pc = "idle"
  /\ FreshLocals
  /\ trace = <<>>
  /\ InitCall
  /\ InitFooterCall
  /\ InitMentionsCall

\* An append that leaves combined_content of the site behind for the next
\* one: property C6_BatchIsolation tells it from Append_result.
Append_result_keep(result) ==
  /\ all_data' = Append(all_data, result)
  /\ idx' = idx + 1
  /\ pc' = "loop"
  /\ content' = NotFound
  /\ license_link' = None
  /\ license_text' = None
  /\ license_type' = None
  /\ relevant_links' = <<>>
  /\ link_i' = 0
  /\ UNCHANGED combined_content

\* _process_website returns result: scan_websites appends it and the loop
\* moves on; the locals of _process_website are gone.
Append_result(result) ==
  /\ all_data' = Append(all_data, result)
  /\ idx' = idx + 1
  /\ pc' = "loop"
  /\ content' = NotFound
  /\ license_link' = None
  /\ license_text' = None
  /\ license_type' = None
  /\ relevant_links' = <<>>
  /\ combined_content' = <<>>
  /\ link_i' = 0

\* An except clause that moves on without a record: property
\* C1_OneResultPerInput tells it from Except.
Except_drop(e) ==
  /\ idx' = idx + 1
  /\ pc' = "loop"
  /\ content' = NotFound
  /\ license_link' = None
  /\ license_text' = None
  /\ license_type' = None
  /\ relevant_links' = <<>>
  /\ combined_content' = <<>>
  /\ link_i' = 0
  /\ UNCHANGED all_data

\* An exception e leaves _process_website: the except clause of
\* scan_websites appends the error record and the loop moves on.
Except(e) == Append_result(ErrorResult(url, e))

\* A set_user_agent that stores the new value without updating the header of
\* the session: property C16_ConfiguredAgent tells it from set_user_agent.
set_user_agent_attribute_only(ua) ==
  /\ pc \in {"idle", "returned"}
  /\ user_agent' = ua
  /\ UNCHANGED <<session_ua, all_data, sites, idx, pc, locals, trace, call>>

\* RequestManager.set_user_agent, between two scans
set_user_agent(ua) ==
  /\ pc \in {"idle", "returned"}
  /\ user_agent' = ua
  /\ session_ua' = ua
  /\ UNCHANGED <<all_data, sites, idx, pc, locals, trace, call>>

\* scan_websites emptying the list it has, self.all_data.clear(), instead of
\* binding a new one: the list a caller holds is emptied with it.  Property
\* C26_Immutable tells it from enter_scan_websites.
enter_scan_websites_clear(held) ==
  /\ pc \in {"idle", "returned"}
  /\ all_data' = <<>>
  /\ kept' = (IF held = None THEN None ELSE <<>>)
  /\ sites' = SiteArg(FALSE, <<>>)
  /\ trace' = <<>>
  /\ idx' = 0
  /\ pc' = "entered"
  /\ UNCHANGED <<manager, locals, cc_url, cc_text, cc_label, cc_pc,
                 fl_soup, fl_base_url, fl_found, fl_pc, el_text, el_found, el_pc>>

\* A caller enters scan_websites: self.all_data = [] binds a new list, and
\* the list held from an earlier call stays as it is.  The argument is
\* bound here; the model draws it where the code first reads it, in
\* check_sites.
enter_scan_websites(held) ==
  /\ pc \in {"idle", "returned"}
  /\ all_data' = <<>>
  /\ kept' = held
  /\ sites' = SiteArg(FALSE, <<>>)
  /\ trace' = <<>>
  /\ idx' = 0
  /\ pc' = "entered"
  /\ UNCHANGED <<manager, locals, cc_url, cc_text, cc_label, cc_pc,
                 fl_soup, fl_base_url, fl_found, fl_pc, el_text, el_found, el_pc>>

\* scan_websites called by a caller that holds no list other than the one
\* it held before
scan_websites == enter_scan_websites(kept)

\* "if not sites: return self.all_data", else the for loop starts; the
\* argument is one of args
bind_sites(args) ==
  /\ pc = "entered"
  /\ \E arg \in args :
       /\ sites' = arg
       /\ IF arg.is_none \/ arg.items = <<>>
          THEN pc' = "returned" /\ idx' = 0
          ELSE pc' = "loop" /\ idx' = 1
  /\ UNCHANGED <<manager, all_data, locals, trace, call>>

check_sites == bind_sites(SiteArgs)

\* The start of _process_website without the early return for an invalid
\* URL: property C2_MalformedUrl tells it from validate.
validate_skip ==
  /\ pc = "loop"
  /\ idx <= Len(sites.items)
  /\ pc' = "robots"
  /\ UNCHANGED <<manager, all_data, sites, idx, locals, trace, call>>

\* A _process_website that validates the URL and then fetches the page at
\* once, the robots check left out: property C19_StageOrder tells it from
\* validate.
validate_then_fetch ==
  /\ pc = "loop"
  /\ idx <= Len(sites.items)
  /\ IF ~_validate_url(url)
     THEN /\ Append_result([DefaultResult(url) EXCEPT !.invalidUrl = TRUE])
          /\ UNCHANGED trace
     ELSE /\ pc' = "fetch"
          /\ UNCHANGED <<all_data, idx, locals, trace>>
  /\ UNCHANGED <<manager, sites, call>>

\* The for loop takes the next url: _process_website up to the robots check.
validate ==
  /\ pc = "loop"
  /\ idx <= Len(sites.items)
  /\ IF ~_validate_url(url)
     THEN /\ Append_result([DefaultResult(url) EXCEPT !.invalidUrl = TRUE])
          /\ UNCHANGED trace
     ELSE /\ pc' = "robots"
          /\ UNCHANGED <<all_data, idx, locals, trace>>
  /\ UNCHANGED <<manager, sites, call>>

\* A robots check that asks for robots.txt of the next site of the batch
\* along with the one of this site: property C25_Sequential tells it from
\* check_robots.
check_robots_ahead ==
  /\ pc = "robots"
  /\ LET base_url == _normalize_url(url)
         ahead == IF idx < Len(sites.items)
                  THEN <<GetEvent(idx + 1, robots_url(_normalize_url(sites.items[idx + 1])),
                                  session_ua)>>
                  ELSE <<>>
     IN /\ trace' = Append(trace, GetEvent(idx, robots_url(base_url), session_ua)) \o ahead
        /\ IF ~is_allowed_by_robots(base_url, user_agent)
           THEN Append_result([DefaultResult(url) EXCEPT !.blockedByRobotsTxt = TRUE])
           ELSE /\ pc' = "fetch"
                /\ UNCHANGED <<all_data, idx, locals>>
  /\ UNCHANGED <<manager, sites, call>>

\* is_allowed_by_robots(base_url): the request for robots.txt and the verdict
check_robots ==
  /\ pc = "robots"
  /\ LET base_url == _normalize_url(url)
     IN /\ trace' = Append(trace, GetEvent(idx, robots_url(base_url), session_ua))
        /\ IF ~Cached(RobotsTable, <<base_url, user_agent>>,
                      is_allowed_by_robots(base_url, user_agent))
           THEN Append_result([DefaultResult(url) EXCEPT !.blockedByRobotsTxt = TRUE])
           ELSE /\ pc' = "fetch"
                /\ UNCHANGED <<all_data, idx, locals>>
  /\ UNCHANGED <<manager, sites, call>>

\* A fetch_page that asks again when the request fails: property
\* C21_NoRetries tells it from fetch_primary.
fetch_primary_retry ==
  /\ pc = "fetch"
  /\ trace' = Append(trace, GetEvent(idx, url, session_ua))
  /\ LET page == fetch_page(url)
     IN IF page.raised # None
        THEN UNCHANGED <<all_data, idx, pc, locals>>
        ELSE IF IsEmpty(page.content) THEN Append_result(DefaultResult(url))
        ELSE /\ content' = page.content
             /\ pc' = "extract"
             /\ UNCHANGED <<all_data, idx, license_link, license_text, license_type,
                            relevant_links, combined_content, link_i>>
  /\ UNCHANGED <<manager, sites, call>>

\* fetch_page(url) and parse_html(content)
fetch_primary ==
  /\ pc = "fetch"
  /\ trace' = Append(trace, GetEvent(idx, url, session_ua))
  /\ LET page == fetch_page(url)
     IN IF page.raised # None THEN Except(page.raised)
        ELSE IF IsEmpty(page.content) THEN Append_result(DefaultResult(url))
        ELSE /\ content' = page.content
             /\ pc' = "extract"
             /\ UNCHANGED <<all_data, idx, license_link, license_text, license_type,
                            relevant_links, combined_content, link_i>>
  /\ UNCHANGED <<manager, sites, call>>

\* extract handing the normalized base URL (scheme and host) instead of the
\* scanned URL to extract_footer_links: property C14_ResolvedOnPage tells it
\* from extract.
extract_on_base_url ==
  /\ pc = "extract"
  /\ LET found == extract_footer_links(content, _normalize_url(url))
     IN /\ license_link' = found.license_link
        /\ license_text' = found.license_text
        /\ \E order \in Orders(found.relevant_links) : relevant_links' = order
        /\ license_type' = determine_cc_license(found.license_link, found.license_text)
        /\ IF found.relevant_links = {}
           THEN pc' = "finish" /\ link_i' = 0
           ELSE pc' = "secondary" /\ link_i' = 1
  /\ UNCHANGED <<manager, all_data, sites, idx, content, combined_content,
                 trace, call>>

\* extract_footer_links, the first determine_cc_license, and
\* process_relevant_links up to its for loop
extract ==
  /\ pc = "extract"
  /\ LET found == Cached(FooterLinksTable, <<content, url>>,
                      extract_footer_links(content, url))
     IN /\ license_link' = found.license_link
        /\ license_text' = found.license_text
        /\ \E order \in Orders(found.relevant_links) : relevant_links' = order
        /\ license_type' =
             Cached(LinkTypeTable, <<found.license_link, found.license_text>>,
                    determine_cc_license(found.license_link, found.license_text))
        /\ IF found.relevant_links = {}
           THEN pc' = "finish" /\ link_i' = 0
           ELSE pc' = "secondary" /\ link_i' = 1
  /\ UNCHANGED <<manager, all_data, sites, idx, content, combined_content,
                 trace, call>>

\* A turn of the loop that sleeps only after a page that yielded text:
\* property C20_PolitenessDelay tells it from fetch_secondary.
fetch_secondary_sleep_on_text ==
  /\ pc = "secondary"
  /\ trace' = Append(trace, GetEvent(idx, relevant_links[link_i], session_ua))
  /\ LET page == fetch_page(relevant_links[link_i])
         extracted == extract_relevant_text(page.content)
     IN IF page.raised # None THEN Except(page.raised)
        ELSE IF ~IsEmpty(page.content) /\ extracted # ""
        THEN /\ combined_content' = Append(combined_content, extracted)
             /\ pc' = "sleep"
             /\ UNCHANGED <<all_data, idx, content, license_link, license_text,
                            license_type, relevant_links, link_i>>
        ELSE /\ link_i' = link_i + 1
             /\ pc' = (IF link_i < Len(relevant_links) THEN "secondary" ELSE "finish")
             /\ UNCHANGED <<all_data, idx, content, license_link, license_text,
                            license_type, relevant_links, combined_content>>
  /\ UNCHANGED <<manager, sites, call>>

\* One turn of the for loop of process_relevant_links, up to time.sleep
fetch_secondary ==
  /\ pc = "secondary"
  /\ trace' = Append(trace, GetEvent(idx, relevant_links[link_i], session_ua))
  /\ LET page == fetch_page(relevant_links[link_i])
         extracted == Cached(RelevantTextTable, page.content,
                             extract_relevant_text(page.content))
     IN IF page.raised # None THEN Except(page.raised)
        ELSE /\ combined_content' =
                  (IF ~IsEmpty(page.content) /\ extracted # ""
                   THEN Append(combined_content, extracted) ELSE combined_content)
             /\ pc' = "sleep"
             /\ UNCHANGED <<all_data, idx, content, license_link, license_text,
                            license_type, relevant_links, link_i>>
  /\ UNCHANGED <<manager, sites, call>>

\* A time.sleep that never returns: property C27_Termination tells it from
\* sleep.
sleep_hang ==
  /\ pc = "sleep"
  /\ UNCHANGED <<manager, all_data, sites, idx, pc, locals, trace, call>>

\* time.sleep(self.request_delay), the last statement of the loop body
sleep ==
  /\ pc = "sleep"
  /\ trace' = Append(trace, SleepEvent(idx, request_delay))
  /\ link_i' = link_i + 1
  /\ pc' = (IF link_i < Len(relevant_links) THEN "secondary" ELSE "finish")
  /\ UNCHANGED <<manager, all_data, sites, idx, content, license_link,
                 license_text, license_type, relevant_links, combined_content, call>>

\* A _process_website that falls back on the text of the primary page when
\* the footer gave no relevant links: property C30_NoRelevantLinks tells it
\* from finish.
finish_with_page_text ==
  /\ pc = "finish"
  /\ LET text == IF relevant_links = <<>> THEN extract_relevant_text(content)
                 ELSE Join(" ", combined_content)
     IN Append_result(FullResult(url, license_link, license_type, relevant_links, text))
  /\ UNCHANGED <<manager, sites, trace, call>>

\* The end of process_relevant_links and of _process_website
finish ==
  /\ pc = "finish"
  /\ LET text == Join(" ", combined_content)
     IN Append_result(
          Cached(FullResultTable,
                 <<url, license_link, license_type, relevant_links, text>>,
                 FullResult(url, license_link, license_type, relevant_links, text)))
  /\ UNCHANGED <<manager, sites, trace, call>>

\* The for loop is over: scan_websites returns self.all_data.
return ==
  /\ pc = "loop"
  /\ idx > Len(sites.items)
  /\ pc' = "returned"
  /\ UNCHANGED <<manager, all_data, sites, idx, locals, trace, call>>

Next ==
  \/ \E ua \in UserAgents : set_user_agent(ua)
  \/ scan_websites
  \/ check_sites
  \/ validate
  \/ check_robots
  \/ fetch_primary
  \/ extract
  \/ fetch_secondary
  \/ sleep
  \/ finish
  \/ return

Spec == Init /\ [][Next]_vars

----------------------------------------------------------------------------
(* A call runs on: no statement of scan_websites waits for anything but an *)
(* HTTP answer, its failure within the timeout, or the end of a sleep.     *)

\* The sites of the calls followed to their end: a malformed one, one whose
\* robots.txt disallows it, one that does not answer, one with two relevant
\* links, one with a relevant link that is gone.
LiveSiteInputs ==
  {"not a url", "https://blocked.org/", "https://down.org/", "https://unk.org/",
   "https://partial.org/"}

LiveSiteArgs ==
  {SiteArg(TRUE, <<>>)} \cup {SiteArg(FALSE, l) : l \in Lists(LiveSiteInputs, MaxSites)}

check_live_sites == bind_sites(LiveSiteArgs)

NextLive ==
  \/ scan_websites
  \/ check_live_sites
  \/ validate
  \/ check_robots
  \/ fetch_primary
  \/ extract
  \/ fetch_secondary
  \/ sleep
  \/ finish
  \/ return

Fairness ==
  /\ WF_vars(check_live_sites)
  /\ WF_vars(validate)
  /\ WF_vars(check_robots)
  /\ WF_vars(fetch_primary)
  /\ WF_vars(extract)
  /\ WF_vars(fetch_secondary)
  /\ WF_vars(sleep)
  /\ WF_vars(finish)
  /\ WF_vars(return)

SpecLive == Init /\ [][NextLive]_vars /\ Fairness

----------------------------------------------------------------------------

(* Two and more calls on one detector by a caller that holds on to the     *)
(* list each call returned                                                 *)

\* The sites such a caller passes: a malformed one, one that does not
\* answer, one with a license link and a relevant link.
HeldSiteInputs == {"not a url", "https://down.org/", "https://cc.org/a/"}

HeldSiteArgs ==
  {SiteArg(TRUE, <<>>)} \cup {SiteArg(FALSE, l) : l \in Lists(HeldSiteInputs, MaxSites)}

\* first = detector.scan_websites(a); second = detector.scan_websites(b):
\* the caller holds the list the call before returned.
scan_websites_again == enter_scan_websites(IF pc = "returned" THEN all_data ELSE kept)

check_held_sites == bind_sites(HeldSiteArgs)

NextHeld ==
  \/ scan_websites_again
  \/ check_held_sites
  \/ validate
  \/ check_robots
  \/ fetch_primary
  \/ extract
  \/ fetch_secondary
  \/ sleep
  \/ finish
  \/ return

SpecHeld == Init /\ [][NextHeld]_vars

----------------------------------------------------------------------------
(* determine_cc_license alone: one call on a URL and a text *)

CcUrls ==
  {None, "", "https://x.org/license", CC_BY_URL, CC_BY_SA_URL, CC_ZERO_URL,
   "HTTPS://CreativeCommons.org/PublicDomain/Zero/1.0/",
   "HTTPS://CreativeCommons.org/Licenses/BY-NC-ND/2.5/",
   "https://x.org/licenses/by/4.0/?see=publicdomain/zero",
   "https://x.org/licenses/by-sa/1.0/licenses/by/4.0"}

CcFragments ==
  {"CC0", "Creative Commons Zero", "creative  commons zero", "CC BY 4.0",
   "Creative Commons Attribution-ShareAlike 4.0", "MIT License", "acc0unt",
   "Apache License 2.0", "CC Non-Commercial 3.0"}

\* The three attributes the pattern accepts with a hyphen, with a space or
\* in one word, each in the three spellings
CcAttributeSpellings ==
  {<<"non-commercial", "noncommercial">>, <<"non commercial", "noncommercial">>,
   <<"share-alike", "sharealike">>, <<"share alike", "sharealike">>,
   <<"no-derivatives", "noderivatives">>, <<"no derivatives", "noderivatives">>}

\* A license notice around an attribute
Spelled(attribute) == "CC BY " \o attribute \o " 4.0"

\* Texts the pattern matches that name no type, a type twice, attributes out
\* of their usual order, or a version the list does not hold
CcOddTexts ==
  {"Creative Commons", "Creative Commons 4.0", "CC BY Attribution", "CC NC BY 4.0",
   "CC BY 3.5", "CC SA 4.0"}

CcTexts ==
  {None, ""} \cup CcFragments \cup {a \o ", " \o b : a, b \in CcFragments}
    \cup {Spelled(p[1]) : p \in CcAttributeSpellings}
    \cup {Spelled(p[2]) : p \in CcAttributeSpellings}
    \cup CcOddTexts

InitCC ==
  /\ user_agent = USER_AGENT
  /\ session_ua = USER_AGENT
  /\ all_data = <<>>
  /\ kept = None
  /\ sites = SiteArg(FALSE, <<>>)
  /\ idx = 0
  /\ pc = "idle"
  /\ FreshLocals
  /\ trace = <<>>
  /\ cc_url \in CcUrls
  /\ cc_text \in CcTexts
  /\ cc_label = None
  /\ cc_pc = "ready"
  /\ InitFooterCall
  /\ InitMentionsCall

\* license_identifier.determine_cc_license(cc_url, cc_text)
call_determine_cc_license ==
  /\ cc_pc = "ready"
  /\ cc_label' = determine_cc_license(cc_url, cc_text)
  /\ cc_pc' = "done"
  /\ UNCHANGED <<manager, all_data, kept, sites, idx, pc, locals, trace, cc_url, cc_text,
                 fl_soup, fl_base_url, fl_found, fl_pc, el_text, el_found, el_pc>>

NextCC == call_determine_cc_license

SpecCC == InitCC /\ [][NextCC]_vars

----------------------------------------------------------------------------
(* extract_footer_links alone: one call on a parsed page and a base URL *)

\* The anchors a footer is made of: with and without href, their text
\* matching a license pattern, holding a relevant-link keyword, both or
\* neither.
FlAnchors ==
  {Anchor("/license", " MIT License "), Anchor("/gpl", "GNU GPL v3"),
   Anchor("/terms", "Terms of Use"), Anchor(None, "Apache License 2.0"),
   Anchor("legal.html", "Legal"), Anchor("/terms", "BSD license terms")}

\* The most anchors a page has in its footers.
MaxAnchors == 3

\* Pages of two footers: the anchors l[1..k] in the first, the rest in the
\* second.
FlSoups ==
  {Html(<<SubSeq(p[1], 1, p[2]), SubSeq(p[1], p[2] + 1, Len(p[1]))>>, <<>>) :
     p \in UNION {{<<l, k>> : k \in 0..Len(l)} : l \in Lists(FlAnchors, MaxAnchors)}}

FlBaseUrls == {"https://x.org/", "https://cc.org/a/"}

InitFL ==
  /\ user_agent = USER_AGENT
  /\ session_ua = USER_AGENT
  /\ all_data = <<>>
  /\ kept = None
  /\ sites = SiteArg(FALSE, <<>>)
  /\ idx = 0
  /\ pc = "idle"
  /\ FreshLocals
  /\ trace = <<>>
  /\ InitCall
  /\ fl_soup \in FlSoups
  /\ fl_base_url \in FlBaseUrls
  /\ fl_found = None
  /\ fl_pc = "ready"
  /\ InitMentionsCall

\* data_extractor.extract_footer_links(fl_soup, fl_base_url)
call_extract_footer_links ==
  /\ fl_pc = "ready"
  /\ fl_found' = extract_footer_links(fl_soup, fl_base_url)
  /\ fl_pc' = "done"
  /\ UNCHANGED <<manager, all_data, kept, sites, idx, pc, locals, trace,
                 cc_url, cc_text, cc_label, cc_pc, fl_soup, fl_base_url,
                 el_text, el_found, el_pc>>

NextFL == call_extract_footer_links

SpecFL == InitFL /\ [][NextFL]_vars

----------------------------------------------------------------------------
(* extract_licenses alone: one call on a text *)

\* The texts of test_license_identifier_extract_licenses, each with the
\* family the test expects among the mentions
ExtractLicensesCases ==
  {<<"Licensed under Creative Commons Attribution 4.0 International.",
     "Creative Commons (CC)">>,
   <<"This work uses assets under CC0 1.0 Universal Public Domain Dedication.",
     "Creative Commons (CC)">>,
   <<"Content available under Creative Commons BY-SA 3.0 Unported.",
     "Creative Commons (CC)">>,
   <<"Images are CC BY-NC 2.0. Not for commercial use.",
     "Creative Commons (CC)">>,
   <<"Documentation is licensed under Creative Commons Attribution-ShareAlike 2.5 Generic.",
     "Creative Commons (CC)">>,
   <<"We recommend using the Creative Commons Attribution 4.0 license for maximum reuse.",
     "Creative Commons (CC)">>,
   <<"Ensure compliance with the CC BY-NC-ND 4.0 license terms.",
     "Creative Commons (CC)">>,
   <<"Based on data released under the Creative Commons Zero v1.0 Universal license.",
     "Creative Commons (CC)">>,
   <<"Older materials might be under Creative Commons 2.0 Generic (CC BY 2.0).",
     "Creative Commons (CC)">>,
   <<"A comparison between Creative Commons 3.0 and 4.0 versions.",
     "Creative Commons (CC)">>,
   <<"This software is distributed under the GNU General Public License v3.",
     "GNU GPL">>,
   <<"Copyright (C) 2023 Free Software Foundation, Inc. Licensed under GPLv2.",
     "GNU GPL">>,
   <<"Available under the GNU GPL version 2, or (at your option) any later version.",
     "GNU GPL">>,
   <<"Includes components licensed under GNU Lesser General Public License (LGPL) v2.1.",
     "GNU GPL">>,
   <<"Code released under the terms of the GNU Affero General Public License v3.",
     "GNU GPL">>,
   <<"Dual-licensed under a proprietary license or the GNU GPL v3.",
     "GNU GPL">>,
   <<"See COPYING file for the full text of the GNU General Public License version 2.",
     "GNU GPL">>,
   <<"Compatibility issues between GPLv1 and later versions were discussed.",
     "GNU GPL">>,
   <<"Migrating project from GPLv2 to GNU GPL v3.",
     "GNU GPL">>,
   <<"Must comply with the Free Software Definition as per the GNU GPL.",
     "GNU GPL">>,
   <<"Permission is hereby granted, free of charge... under the MIT License.",
     "MIT License">>,
   <<"Licensed under the terms of the MIT License. Copyright (c) 2024 Jane Doe",
     "MIT License">>,
   <<"This project uses the MIT license (see LICENSE file).",
     "MIT License">>,
   <<"Code provided under the permissive MIT license.",
     "MIT License">>,
   <<"Utilizes libraries governed by the MIT style license.",
     "MIT License">>,
   <<"The software is licensed under the MIT License (Expat).",
     "MIT License">>,
   <<"Uses several dependencies, most released under the MIT License.",
     "MIT License">>,
   <<"Copyright (c) 2022 The Foo Authors. MIT License.",
     "MIT License">>,
   <<"// SPDX-License-Identifier: MIT",
     "MIT License">>,
   <<"Choosing between MIT and Apache? The MIT license is simpler.",
     "MIT License">>,
   <<"Licensed under the Apache License, Version 2.0 (the \"License\");",
     "Apache License">>,
   <<"Copyright 2023 The Apache Software Foundation. Apache License 2.0.",
     "Apache License">>,
   <<"This project is distributed under the Apache License v2.0.",
     "Apache License">>,
   <<"Uses libraries governed by the Apache License, Version 1.1.",
     "Apache License">>,
   <<"See NOTICE file for details on Apache License 2.0 compliance.",
     "Apache License">>,
   <<"Originally licensed under Apache 1.0, now relicensed to Apache 2.0.",
     "Apache License">>,
   <<"// SPDX-License-Identifier: Apache-2.0",
     "Apache License">>,
   <<"Requires patent grant as specified in Apache License Version 2.0.",
     "Apache License">>,
   <<"Comparing the Apache License 2.0 with the GPLv3.",
     "Apache License">>,
   <<"Contributions must be compatible with the Apache 2.0.",
     "Apache License">>,
   <<"Redistribution and use... permitted provided that the following conditions are met: (BSD 3-Clause License)",
     "BSD License">>,
   <<"Licensed under the Simplified BSD License (2-clause).",
     "BSD License">>,
   <<"Uses components under the New BSD License (3-clause).",
     "BSD License">>,
   <<"Code originally from Berkeley, subject to the old 4-clause BSD license.",
     "BSD License">>,
   <<"See LICENSE file for terms of the BSD 2-Clause License.",
     "BSD License">>,
   <<"This is essentially public domain, using the BSD 0-Clause license.",
     "BSD License">>,
   <<"// SPDX-License-Identifier: BSD-3-Clause",
     "BSD License">>,
   <<"Comparing BSD 3-Clause and MIT licenses.",
     "BSD License">>,
   <<"Requires copyright notice preservation under the 2-clause BSD license.",
     "BSD License">>,
   <<"Project relicensed from 4-clause BSD to the more common 3-clause BSD license.",
     "BSD License">>}

\* The texts of test_license_identifier_false_positives, for which the test
\* expects no mention
FalsePositiveTexts ==
  {"Join our creative team meeting in the commons area.",
   "Please CC the manager on this email thread regarding attribution.",
   "Share your ideas freely; we encourage creative input.",
   "This public domain photo requires no attribution.",
   "Her work involved noncommercial research into derivatives.",
   "He made a creative contribution, alike to previous efforts.",
   "The park rules allow sharing picnics in the commons.",
   "Attribution of blame is not productive here; let's be creative.",
   "We need a common strategy for creative content distribution.",
   "Carbon Copy (CC) is an outdated method; use digital sharing.",
   "The gnu is a fascinating animal found in Africa's general public reserves.",
   "Check the Gas Pressure Level (GPL) before starting.",
   "Generally, public distribution requires a specific license.",
   "This is free software, but not necessarily under the GNU license.",
   "We need to copyleft alignment on this document.",
   "The source code is available upon request for general review.",
   "Modification is permitted, subject to our internal public rules.",
   "The Free Software Foundation (FSF) advocates for user freedom, often via GPL.",
   "Version 3 (v3) of the general guidelines is now public.",
   "Ensure the GNU compiler collection is installed for this project.",
   "She received her degree from MIT.",
   "Permission is granted, provided you submit the license paperwork.",
   "Make copies of the software installation guide for the team.",
   "Access is free of charge, but usage requires MIT affiliation.",
   "Use this software without restriction during the trial period.",
   "We need to modify, merge, and publish these findings soon.",
   "You can distribute copies, but not sublicense or sell them.",
   "The copyright notice must remain intact on all copies.",
   "He submitted his work for review at the Massachusetts Institute of Technology.",
   "This library offers permissive use, similar to the MIT style.",
   "Configure the Apache web server settings for version 2.0.",
   "The Apache Software Foundation (ASF) hosts many projects.",
   "This work is based on the original study; see the notice.",
   "Any derivative works require permission from the foundation.",
   "Each contributor must sign the patent agreement.",
   "The trademark license is pending approval.",
   "We received a contribution from the Apache county.",
   "This software requires Java version 2.0 or higher.",
   "Attach the NOTICE file containing contributor information.",
   "His work on the project was a significant contribution.",
   "He earned a Bachelor of Science Degree (BSD) in computer science.",
   "Redistribution of assets requires board approval.",
   "Use of source materials is restricted to authorized personnel.",
   "Binary forms of the data are stored separately.",
   "Modification requests must follow the 3-clause procedure.",
   "Ensure the copyright notice and list of conditions are clear.",
   "Read the disclaimer before using the equipment.",
   "This is a simplified version, not the new BSD model.",
   "Source code access is granted under specific conditions.",
   "The Berkeley Software Distribution influenced many systems."}

ElTexts == {c[1] : c \in ExtractLicensesCases} \cup FalsePositiveTexts

InitEL ==
  /\ user_agent = USER_AGENT
  /\ session_ua = USER_AGENT
  /\ all_data = <<>>
  /\ kept = None
  /\ sites = SiteArg(FALSE, <<>>)
  /\ idx = 0
  /\ pc = "idle"
  /\ FreshLocals
  /\ trace = <<>>
  /\ InitCall
  /\ InitFooterCall
  /\ el_text \in ElTexts
  /\ el_found = {}
  /\ el_pc = "ready"

\* license_identifier.extract_licenses(el_text)
call_extract_licenses ==
  /\ el_pc = "ready"
  /\ el_found' = extract_licenses(el_text)
  /\ el_pc' = "done"
  /\ UNCHANGED <<manager, all_data, kept, sites, idx, pc, locals, trace,
                 cc_url, cc_text, cc_label, cc_pc,
                 fl_soup, fl_base_url, fl_found, fl_pc, el_text>>

NextEL == call_extract_licenses

SpecEL == InitEL /\ [][NextEL]_vars

----------------------------------------------------------------------------
(* What the claims speak of *)

\* A call is running: from the first statement of scan_websites to the last
\* append of its loop.
Running == pc \notin {"idle", "returned"}

\* The loop has appended the last result and scan_websites is about to return.
LoopDone == pc = "loop" /\ idx > Len(sites.items)

Site(i) == sites.items[i]

\* The inputs that are empty or no well-formed URL
MalformedInputs == {u \in SiteInputs : u = "" \/ ~validators_url(u)}

Malformed(u) == u \in MalformedInputs

\* The requests and sleeps of site i
EventsOf(i) == {n \in DOMAIN trace : trace[n].site = i}

\* Each input with the URL of its host's robots.txt
RobotsUrls == {<<u, robots_url(_normalize_url(u))>> : u \in SiteInputs}

RobotsResponse(u) == Get(robots_url(_normalize_url(u)))

\* The inputs u and user agents ua such that robots.txt of u's host was
\* retrieved and parsed, and its group for ua disallows the site from its
\* root on.
RobotsDisallowing ==
  {p \in {<<u, ua>> : u \in SiteInputs, ua \in UserAgents} :
     LET r == RobotsResponse(p[1])
     IN /\ r.exc = None /\ r.status = 200 /\ r.kind = "robots"
        /\ ~can_fetch(r.groups, _normalize_url(p[1]), p[2])}

RobotsDisallows(u, ua) == <<u, ua>> \in RobotsDisallowing

\* The inputs for whose host no robots.txt could be retrieved and parsed
RobotsFailing ==
  {u \in SiteInputs :
     LET r == RobotsResponse(u)
     IN r.exc # None \/ r.status # 200 \/ r.kind = "garbage"}

RobotsRetrievalFails(u) == u \in RobotsFailing

\* The GET of u fails (an exception, a status outside 2xx) or answers nothing.
FetchFails(u) ==
  LET r == Get(u) IN r.exc # None \/ r.status \notin 200..299

FetchFailsOrEmpty(u) == FetchFails(u) \/ Get(u).kind = "empty"

\* Site i got as far as requesting its primary page.
PrimaryFetched(i) == \E n \in EventsOf(i) : trace[n].op = "GET" /\ trace[n].url = Site(i)

\* The secondary requests of site i
SecondaryOf(i) ==
  {n \in EventsOf(i) : /\ trace[n].op = "GET"
                       /\ trace[n].url # Site(i)
                       /\ <<Site(i), trace[n].url>> \notin RobotsUrls}

IsError(r) == "error" \in DOMAIN r

\* "publicdomain/zero" in the URL
UrlNamesCC0(u) == Truthy(u) /\ Contains(Lower(u), "publicdomain/zero")

\* "cc0" or "creative commons zero" in the text
TextNamesCC0(t) ==
  Truthy(t) /\ (Contains(Lower(t), "cc0") \/ Contains(Lower(t), "creative commons zero"))

\* The labels CC-{type}-{version} whose path licenses/{type}/{version} the URL holds
UrlLabels(u) ==
  IF ~Truthy(u) THEN {}
  ELSE {"CC-" \o CC_TYPES[t] \o "-" \o CC_VERSIONS[v] :
          <<t, v>> \in {<<a, b>> \in (DOMAIN CC_TYPES) \X (DOMAIN CC_VERSIONS) :
             Contains(Lower(u), "licenses/" \o Lower(CC_TYPES[a]) \o "/" \o CC_VERSIONS[b])}}

\* The site raises when scanned on its own.
Raising == {<<t[1], t[2]>> : t \in {a \in Alone : IsError(a[3])}}

Raises(u, ua) == <<u, ua>> \in Raising

\* The record is a result of _process_website with this flag set.
Flagged(r, flag) == ~IsError(r) /\ r[flag]

\* The request for robots.txt of site i
IsRobotsGet(n, i) ==
  trace[n].op = "GET" /\ <<Site(i), trace[n].url>> \in RobotsUrls

----------------------------------------------------------------------------
(* C1 - C10 *)

\* C1: scan_websites returns one result for each entry of its argument, in
\* the order of the argument (result[i].website = sites[i]), whatever the
\* entries are: invalid, blocked, failing or raising; an empty list or None
\* gives the empty list.  While the loop runs, all_data holds the results of
\* the entries before the current one.
C1_OneResultPerInput ==
  /\ pc \in {"loop", "robots", "fetch", "extract", "secondary", "sleep", "finish"}
       => /\ Len(all_data) = idx - 1
          /\ \A i \in DOMAIN all_data : all_data[i].website = Site(i)
  /\ pc = "returned"
       => /\ Len(all_data) = Len(sites.items)
          /\ \A i \in DOMAIN all_data : all_data[i].website = Site(i)
          /\ (sites.is_none => all_data = <<>>)

\* A call has returned two results, the first for a site that raised and the
\* second for an invalid URL.
C1_Witness ==
  /\ pc = "returned"
  /\ Len(all_data) = 2
  /\ IsError(all_data[1])
  /\ Flagged(all_data[2], "invalidUrl")

\* C2: the result of a malformed or empty URL is the default result with
\* invalidUrl = true (no error key), and no request, for robots.txt or for a
\* page, is made for that entry.
C2_MalformedUrl ==
  \A i \in DOMAIN sites.items :
    Malformed(Site(i)) =>
      /\ EventsOf(i) = {}
      /\ i \in DOMAIN all_data
           => all_data[i] = [DefaultResult(Site(i)) EXCEPT !.invalidUrl = TRUE]

\* A call has returned the result of a malformed URL next to that of a site
\* for which requests were made.
C2_Witness ==
  /\ pc = "returned"
  /\ \E i, j \in DOMAIN all_data :
       /\ Malformed(Site(i)) /\ Site(i) # ""
       /\ Flagged(all_data[i], "invalidUrl")
       /\ EventsOf(j) # {}

\* C3: for a valid site whose robots.txt disallows the configured user
\* agent, the only request is the one for robots.txt, and the result is the
\* default result with blockedByRobotsTxt = true (invalidUrl = false).
C3_RobotsBlock ==
  Running =>
    \A i \in DOMAIN sites.items :
      (~Malformed(Site(i)) /\ RobotsDisallows(Site(i), user_agent)) =>
        /\ \A n \in EventsOf(i) : IsRobotsGet(n, i)
        /\ i \in DOMAIN all_data
             => /\ all_data[i] = [DefaultResult(Site(i)) EXCEPT !.blockedByRobotsTxt = TRUE]
                /\ Cardinality(EventsOf(i)) = 1

\* A site that only the user agent MJ12bot is shut out of has been recorded
\* as blocked, and the scan went on to request another site's page.
C3_Witness ==
  /\ LoopDone
  /\ user_agent = "MJ12bot"
  /\ \E i, j \in DOMAIN all_data :
       /\ Site(i) = "https://x.org/"
       /\ Flagged(all_data[i], "blockedByRobotsTxt")
       /\ i < j /\ PrimaryFetched(j)

\* C4: when the request for the primary page of a valid, allowed site fails
\* (an exception, a status outside 2xx) or answers an empty body, the result
\* is the default result: no flag set, no error key.
C4_PrimaryFailure ==
  Running =>
    \A i \in DOMAIN all_data :
      (PrimaryFetched(i) /\ FetchFailsOrEmpty(Site(i)))
        => all_data[i] = DefaultResult(Site(i))

\* C5: when the request for one relevant link fails, the link is skipped,
\* every other relevant link is still requested, and the site's result is a
\* full result without an error key.
C5_SecondaryFailure ==
  Running =>
    \A i \in DOMAIN all_data :
      (\E n \in SecondaryOf(i) : FetchFails(trace[n].url)) =>
        /\ ~IsError(all_data[i])
        /\ all_data[i].content # None
        /\ \A l \in SeqRange(all_data[i].relevantLinks) :
             \E n \in SecondaryOf(i) : trace[n].url = l

\* C6: in a batch in which exactly one site raises, there is one result for
\* each site; the record of the raising site has the keys website and error
\* only, no other record has an error key, and every other record is one
\* that a scan of its site alone produces.
C6_BatchIsolation ==
  (LoopDone /\ Cardinality({i \in DOMAIN sites.items : Raises(Site(i), user_agent)}) = 1)
    => /\ Len(all_data) = Len(sites.items)
       /\ \A i \in DOMAIN all_data :
            IF Raises(Site(i), user_agent)
            THEN /\ DOMAIN all_data[i] = {"website", "error"}
                 /\ <<Site(i), user_agent, all_data[i]>> \in Alone
            ELSE /\ ~IsError(all_data[i])
                 /\ <<Site(i), user_agent, all_data[i]>> \in Alone

\* A batch of two is done: the first site raised after one of its relevant
\* links had given text, the second has a full result with content.
C6_Witness ==
  /\ LoopDone
  /\ Len(all_data) = 2
  /\ Site(1) = "https://partial.org/"
  /\ IsError(all_data[1])
  /\ Cardinality(SecondaryOf(1)) = 2
  /\ ~IsError(all_data[2])
  /\ all_data[2].content # None /\ all_data[2].content # ""

\* C7: the robots check fails open.  When robots.txt cannot be retrieved and
\* parsed (an exception, a status other than 200, a text Protego cannot
\* parse), is_allowed_by_robots is true, the site is not recorded as blocked
\* and its primary page is requested; a site is recorded as blocked only when
\* its robots.txt was retrieved and parsed.
C7_RobotsFailOpen ==
  Running =>
    \A i \in DOMAIN all_data :
      /\ (~Malformed(Site(i)) /\ RobotsRetrievalFails(Site(i)))
           => /\ is_allowed_by_robots(_normalize_url(Site(i)), user_agent)
              /\ ~Flagged(all_data[i], "blockedByRobotsTxt")
              /\ PrimaryFetched(i)
      /\ Flagged(all_data[i], "blockedByRobotsTxt")
           => /\ ~RobotsRetrievalFails(Site(i))
              /\ RobotsDisallows(Site(i), user_agent)

\* Two sites of a batch went on to their primary page: one whose robots.txt
\* request timed out and one whose robots.txt Protego could not parse.
C7_Witness ==
  /\ LoopDone
  /\ \E i, j \in DOMAIN all_data :
       /\ RobotsResponse(Site(i)).exc = Timeout.exc
       /\ RobotsResponse(Site(j)).kind = "garbage"
       /\ ~Flagged(all_data[i], "blockedByRobotsTxt") /\ PrimaryFetched(i)
       /\ ~Flagged(all_data[j], "blockedByRobotsTxt") /\ PrimaryFetched(j)

\* C8 (under SpecCC): determine_cc_license(url, text) is "CC0" whenever the
\* lowercased URL contains "publicdomain/zero" or the lowercased text
\* contains "cc0" or "creative commons zero", also when the URL holds a
\* licenses/{type}/{version} path or the text matches another pattern.
C8_Cc0First ==
  cc_pc = "done" =>
    ((UrlNamesCC0(cc_url) \/ TextNamesCC0(cc_text)) => cc_label = "CC0")

\* The call was made on a URL with the path licenses/by/4.0 and a text that
\* names both CC0 and CC BY 4.0, and gave "CC0".
C8_Witness ==
  /\ cc_pc = "done"
  /\ cc_url = CC_BY_URL
  /\ cc_text = "CC BY 4.0, CC0"
  /\ cc_label = "CC0"

\* C9 as stated: in every full result, licenseType is "CC0" if the license
\* link's URL contains "publicdomain/zero", or the license anchor's text or
\* the aggregated content contains "cc0" or "creative commons zero".
C9_Cc0Everywhere ==
  [][pc = "finish" =>
       ((\/ UrlNamesCC0(license_link)
         \/ TextNamesCC0(license_text)
         \/ TextNamesCC0(all_data'[idx].content))
          => all_data'[idx].licenseType = "CC0")]_vars

\* C9, amended: in every full result, licenseType is "CC0" if the license
\* link's URL contains "publicdomain/zero" or the license anchor's text
\* contains "cc0" or "creative commons zero", also when the URL holds a
\* licenses/{type}/{version} path; "cc0" or "creative commons zero" in the
\* aggregated content gives "CC0" when the classification from the link was
\* "Unknown".
C9_Cc0FromLink ==
  [][pc = "finish" =>
       /\ (UrlNamesCC0(license_link) \/ TextNamesCC0(license_text))
            => all_data'[idx].licenseType = "CC0"
       /\ (license_type = "Unknown" /\ TextNamesCC0(all_data'[idx].content))
            => all_data'[idx].licenseType = "CC0"]_vars

\* A full result is "CC0" although its license link holds licenses/by-sa/4.0
\* (the anchor's text names CC0), and another is "CC0" from aggregated
\* content alone.
C9_Witness ==
  /\ LoopDone
  /\ \E i, j \in DOMAIN all_data :
       /\ ~IsError(all_data[i]) /\ ~IsError(all_data[j])
       /\ all_data[i].licenseLink = CC_BY_SA_URL
       /\ all_data[i].licenseType = "CC0"
       /\ UrlLabels(all_data[j].licenseLink) = {}
       /\ ~UrlNamesCC0(all_data[j].licenseLink)
       /\ TextNamesCC0(all_data[j].content)
       /\ all_data[j].licenseType = "CC0"

\* C10 as stated: when the license link's URL holds a path
\* licenses/{type}/{version}, licenseType is the label CC-{type}-{version} of
\* that URL, whatever the anchor's text or the aggregated content say; and
\* licenseType differs from the classification of the link only when that
\* was "Unknown".
C10_UrlPatternAlways ==
  [][pc = "finish" =>
       /\ UrlLabels(license_link) # {}
            => all_data'[idx].licenseType \in UrlLabels(license_link)
       /\ all_data'[idx].licenseType # license_type => license_type = "Unknown"]_vars

\* C10, amended: when the license link's URL holds a path
\* licenses/{type}/{version} and neither the URL contains "publicdomain/zero"
\* nor the anchor's text contains "cc0" or "creative commons zero",
\* licenseType is the label CC-{type}-{version} of that URL, whatever else
\* the anchor's text or the aggregated content say; and licenseType differs
\* from the classification of the link only when that was "Unknown".
C10_UrlPattern ==
  [][pc = "finish" =>
       /\ (/\ UrlLabels(license_link) # {}
           /\ ~UrlNamesCC0(license_link)
           /\ ~TextNamesCC0(license_text))
            => all_data'[idx].licenseType \in UrlLabels(license_link)
       /\ all_data'[idx].licenseType # license_type => license_type = "Unknown"]_vars

\* A full result has the label of its link's path licenses/by-nc/3.0 although
\* the anchor's text and the aggregated content name other licenses.
C10_Witness ==
  /\ LoopDone
  /\ \E i \in DOMAIN all_data :
       /\ Site(i) = "https://odd.org/"
       /\ ~IsError(all_data[i])
       /\ all_data[i].licenseLink = CC_BY_NC_URL
       /\ all_data[i].licenseType = "CC-BY-NC-3.0"
       /\ all_data[i].content # ""


----------------------------------------------------------------------------
(* C11 - C20 *)

\* C11: two scans of the same site against the same responses give the same
\* licenseType and licenseLink and the same sets relevantLinks and
\* licenseMentions, in whatever order list(relevant_links) enumerates the
\* set in each scan.
C11_Determinism ==
  LoopDone =>
    \A i, j \in DOMAIN all_data :
      Site(i) = Site(j) =>
        /\ IsError(all_data[i]) <=> IsError(all_data[j])
        /\ ~IsError(all_data[i]) =>
             /\ all_data[i].licenseType = all_data[j].licenseType
             /\ all_data[i].licenseLink = all_data[j].licenseLink
             /\ SeqRange(all_data[i].relevantLinks) = SeqRange(all_data[j].relevantLinks)
             /\ all_data[i].licenseMentions = all_data[j].licenseMentions

\* The positions <<footer, anchor>> of the anchors of fl_soup
FlPositions ==
  UNION {{<<f, a>> : a \in DOMAIN fl_soup.footers[f]} : f \in DOMAIN fl_soup.footers}

FlAnchor(p) == fl_soup.footers[p[1]][p[2]]

\* Document order: footers first, then anchors within a footer.
Before(p, q) == p[1] < q[1] \/ (p[1] = q[1] /\ p[2] < q[2])

\* The first position of a non-empty set of positions
First(ps) == CHOOSE p \in ps : \A q \in ps : p = q \/ Before(p, q)

\* _contains_pattern on the text of each anchor of FlAnchors
NamesLicenseTable ==
  {<<a, _contains_pattern(Strip(a.text), LICENSE_PATTERNS)>> : a \in FlAnchors}

\* The visible text of the anchor matches one of the five license patterns.
NamesLicense(a) ==
  Cached(NamesLicenseTable, a, _contains_pattern(Strip(a.text), LICENSE_PATTERNS))

\* The anchor has a non-empty href.
HasHref(a) == Truthy(a.href)

\* C12 as stated: extract_footer_links captures the first anchor, in document
\* order, whose visible text matches a license pattern, whether or not the
\* anchor has an href; when no anchor matches, link and text stay empty.
C12_FirstMatch ==
  fl_pc = "done" =>
    LET matching == {p \in FlPositions : NamesLicense(FlAnchor(p))}
    IN IF matching = {}
       THEN fl_found.license_link = "" /\ fl_found.license_text = ""
       ELSE /\ fl_found.license_text = Strip(FlAnchor(First(matching)).text)
            /\ HasHref(FlAnchor(First(matching))) =>
                 fl_found.license_link =
                   urljoin(fl_base_url, FlAnchor(First(matching)).href)

\* C12: extract_footer_links captures as license link and text the first
\* anchor, in document order over footers and then over the anchors of a
\* footer, that has a non-empty href and whose visible text matches one of
\* the five license patterns; no later anchor replaces it; when no anchor
\* with an href matches, link and text stay empty.
C12_FirstLinkedMatch ==
  fl_pc = "done" =>
    LET matching == {p \in FlPositions :
                       HasHref(FlAnchor(p)) /\ NamesLicense(FlAnchor(p))}
    IN IF matching = {}
       THEN fl_found.license_link = "" /\ fl_found.license_text = ""
       ELSE /\ fl_found.license_text = Strip(FlAnchor(First(matching)).text)
            /\ fl_found.license_link =
                 urljoin(fl_base_url, FlAnchor(First(matching)).href)

\* Two anchors with an href match, the later one in the second footer and
\* with another text and URL, after an anchor without href that matches
\* too: the first of the two is the license link.
C12_Witness ==
  /\ fl_pc = "done"
  /\ \E p, q, r \in FlPositions :
       /\ Before(r, p) /\ Before(p, q) /\ q[1] = 2
       /\ ~HasHref(FlAnchor(r)) /\ NamesLicense(FlAnchor(r))
       /\ HasHref(FlAnchor(p)) /\ NamesLicense(FlAnchor(p))
       /\ HasHref(FlAnchor(q)) /\ NamesLicense(FlAnchor(q))
       /\ FlAnchor(p).href # FlAnchor(q).href
       /\ fl_found.license_text = Strip(FlAnchor(p).text)
       /\ fl_found.license_link = urljoin(fl_base_url, FlAnchor(p).href)

\* _contains_keyword on the text of each anchor of FlAnchors
HasKeywordTable ==
  {<<a, _contains_keyword(Strip(a.text), RELEVANT_LINKS_KEYWORDS)>> : a \in FlAnchors}

\* The visible text of the anchor contains a relevant-link keyword.
HasKeyword(a) ==
  Cached(HasKeywordTable, a, _contains_keyword(Strip(a.text), RELEVANT_LINKS_KEYWORDS))

\* The positions of the anchors with an href whose text names a license
LinkedMatches ==
  {p \in FlPositions : HasHref(FlAnchor(p)) /\ NamesLicense(FlAnchor(p))}

\* The anchor at p is the one extract_footer_links captures as license link.
Captured(p) == LinkedMatches # {} /\ p = First(LinkedMatches)

\* C13 as stated: the resolved URL of every footer anchor whose text contains
\* a relevant-link keyword is in relevant_links, the anchor captured as
\* license link included.
C13_EveryKeywordAnchor ==
  fl_pc = "done" =>
    \A p \in FlPositions :
      (HasHref(FlAnchor(p)) /\ HasKeyword(FlAnchor(p)))
        => urljoin(fl_base_url, FlAnchor(p).href) \in fl_found.relevant_links

\* C13: relevant_links is the set of the resolved URLs of the footer anchors
\* with a non-empty href whose text contains a relevant-link keyword, the
\* anchor captured as license link left out: its URL is in relevant_links
\* only if another anchor with a keyword resolves to the same URL.
C13_RelevantLinks ==
  fl_pc = "done" =>
    fl_found.relevant_links =
      {urljoin(fl_base_url, FlAnchor(p).href) :
         p \in {q \in FlPositions :
                  HasHref(FlAnchor(q)) /\ HasKeyword(FlAnchor(q)) /\ ~Captured(q)}}

\* The captured anchor holds a keyword and its URL is not in relevant_links,
\* while a later anchor that names a license and holds a keyword is.
C13_Witness ==
  /\ fl_pc = "done"
  /\ \E p, q \in FlPositions :
       /\ Captured(p) /\ HasKeyword(FlAnchor(p))
       /\ fl_found.license_link = urljoin(fl_base_url, FlAnchor(p).href)
       /\ fl_found.license_link \notin fl_found.relevant_links
       /\ Before(p, q) /\ HasHref(FlAnchor(q))
       /\ NamesLicense(FlAnchor(q)) /\ HasKeyword(FlAnchor(q))
       /\ urljoin(fl_base_url, FlAnchor(q).href) \in fl_found.relevant_links

\* An absolute URL: an http(s) scheme and a host.
IsAbsoluteUrl(l) ==
  /\ StartsWith(l, "http://") \/ StartsWith(l, "https://")
  /\ PathStart(l) > NetlocStart(l)

\* The pairs <<u, l>>: u an input whose page is served, l the absolute URL
\* that the href of a footer anchor of that page resolves to against u.
ResolvedOnPage ==
  {r \in UNION {{<<u, urljoin(u, a.href)>> :
                   a \in {b \in SeqRange(FooterAnchors(Get(u).footers)) : HasHref(b)}} :
                u \in {v \in SiteInputs : ~Malformed(v) /\ Get(v).kind = "html"}} :
     IsAbsoluteUrl(r[2])}

\* A result of _process_website that went through extract_footer_links
IsFull(r) == ~IsError(r) /\ r.content # None

\* C14: a license link that is set, and every relevant link, is an absolute
\* URL: the href of a footer anchor of the scanned page resolved against the
\* scanned URL, path included.  This holds of the links _process_website
\* holds while it fetches the secondary pages and of the links of every
\* result.
C14_ResolvedOnPage ==
  /\ pc \in {"secondary", "sleep", "finish"} =>
       /\ Truthy(license_link) => <<url, license_link>> \in ResolvedOnPage
       /\ \A l \in SeqRange(relevant_links) : <<url, l>> \in ResolvedOnPage
  /\ \A i \in DOMAIN all_data :
       IsFull(all_data[i]) =>
         /\ Truthy(all_data[i].licenseLink) =>
              <<Site(i), all_data[i].licenseLink>> \in ResolvedOnPage
         /\ \A l \in SeqRange(all_data[i].relevantLinks) :
              <<Site(i), l>> \in ResolvedOnPage

\* /license on https://x.org/ became https://x.org/license, and legal.html
\* on https://cc.org/a/ became https://cc.org/a/legal.html.
C14_Witness ==
  /\ LoopDone
  /\ \E i, j \in DOMAIN all_data :
       /\ Site(i) = "https://x.org/" /\ IsFull(all_data[i])
       /\ all_data[i].licenseLink = "https://x.org/license"
       /\ SeqRange(all_data[i].relevantLinks) = {"https://x.org/terms"}
       /\ Site(j) = "https://cc.org/a/" /\ IsFull(all_data[j])
       /\ all_data[j].licenseLink = CC_BY_URL
       /\ SeqRange(all_data[j].relevantLinks) = {"https://cc.org/a/legal.html"}

\* The names of the registered license families
Families == {PATTERN_NAMES[n] : n \in DOMAIN PATTERN_NAMES}

\* The footer anchors of the page at u that extract_footer_links adds to
\* relevant_links: an href, a keyword, and not captured as the license link
\* (the first anchor with an href whose text names a license).
KeywordAnchors(u) ==
  LET anchors == FooterAnchors(Get(u).footers)
      named == {n \in DOMAIN anchors : HasHref(anchors[n]) /\ NamesLicense(anchors[n])}
  IN {n \in DOMAIN anchors :
        /\ HasHref(anchors[n]) /\ HasKeyword(anchors[n])
        /\ ~(named # {} /\ \A o \in named : n <= o)}

\* The inputs whose page has more anchors for relevant links than distinct
\* URLs behind them
RepeatedLinks ==
  {u \in {v \in SiteInputs : ~Malformed(v) /\ Get(v).kind = "html"} :
     Cardinality(KeywordAnchors(u)) >
       Cardinality({urljoin(u, FooterAnchors(Get(u).footers)[n].href) :
                      n \in KeywordAnchors(u)})}

\* C15: in every result relevantLinks holds no URL twice, and licenseMentions
\* holds no name twice and only names of the five registered families,
\* however many anchors resolve to one URL and however often the text names
\* a family.
C15_NoDuplicates ==
  \A i \in DOMAIN all_data :
    ~IsError(all_data[i]) =>
      /\ \A m, n \in DOMAIN all_data[i].relevantLinks :
           all_data[i].relevantLinks[m] = all_data[i].relevantLinks[n] => m = n
      /\ all_data[i].licenseMentions \subseteq Families
      /\ Cardinality(all_data[i].licenseMentions) <= Cardinality(Families)

\* The footer of https://many.org/ has two anchors for /terms, whose page
\* names the MIT license twice: the result holds the URL and the family once.
C15_Witness ==
  /\ LoopDone
  /\ \E i \in DOMAIN all_data :
       /\ Site(i) \in RepeatedLinks
       /\ IsFull(all_data[i])
       /\ Len(all_data[i].relevantLinks) = 2
       /\ "https://many.org/terms" \in SeqRange(all_data[i].relevantLinks)
       /\ Contains(all_data[i].content, "MIT License")
       /\ Contains(all_data[i].content, "MIT license")
       /\ all_data[i].licenseMentions = {"MIT License", "Creative Commons (CC)"}

PageUrls == {u \in SiteInputs : ~Malformed(u)} \cup {r[2] : r \in ResolvedOnPage}

\* The pairs <<l, ua>>: robots.txt of the host of l was retrieved and parsed,
\* and its group for ua disallows the path of l.
PathDisallowing ==
  {p \in {<<l, ua>> : l \in PageUrls, ua \in UserAgents} :
     LET r == Get(robots_url(_normalize_url(p[1])))
     IN /\ r.exc = None /\ r.status = 200 /\ r.kind = "robots"
        /\ ~can_fetch(r.groups, p[1], p[2])}

\* C17: every request for a page, primary or secondary, is for a URL whose
\* path the robots.txt of the URL's own host allows for the configured user
\* agent.
C17_PolicyChecked ==
  Running =>
    \A n \in DOMAIN trace :
      (trace[n].op = "GET" /\ ~IsRobotsGet(n, trace[n].site))
        => <<trace[n].url, user_agent>> \notin PathDisallowing

\* C18: extract_licenses finds the family that each text of
\* test_license_identifier_extract_licenses names with a license designator
\* or a version (SPDX identifiers among them), and finds nothing in the
\* texts of test_license_identifier_false_positives, which use a bare name
\* or unrelated vocabulary.
C18_NamedFamilies ==
  el_pc = "done" =>
    /\ \A c \in ExtractLicensesCases : c[1] = el_text => c[2] \in el_found
    /\ el_text \in FalsePositiveTexts => el_found = {}

\* The stage that follows each stage of _process_website when the site goes
\* on: "loop" stands for the validation of the next URL, "extract" for
\* extract_footer_links and the classification from the link, "secondary"
\* and "sleep" for one turn of process_relevant_links, "finish" for the
\* classification from the text and the return of the result.
StageSuccessors(stage) ==
  CASE stage = "loop" -> {"robots"}
    [] stage = "robots" -> {"fetch"}
    [] stage = "fetch" -> {"extract"}
    [] stage = "extract" -> {"secondary", "finish"}
    [] stage = "secondary" -> {"sleep"}
    [] stage = "sleep" -> {"secondary", "finish"}
    [] OTHER -> {}

\* _process_website is at work on site idx.
InSite ==
  /\ pc \in {"loop", "robots", "fetch", "extract", "secondary", "sleep", "finish"}
  /\ idx <= Len(sites.items)

\* One step of the scan of a site: either the site moves to the stage that
\* follows and no result is emitted, or one result is emitted and the loop
\* turns to the next site; the result is the one of the stage left.
StageStep ==
  \/ /\ idx' = idx
     /\ pc' \in StageSuccessors(pc)
     /\ all_data' = all_data
     /\ (pc' \in {"secondary", "sleep", "finish"}) <=> (license_type' # None)
  \/ /\ idx' = idx + 1
     /\ pc' = "loop"
     /\ Len(all_data') = Len(all_data) + 1
     /\ SubSeq(all_data', 1, Len(all_data)) = all_data
     /\ LET r == all_data'[idx]
        IN CASE pc = "loop" ->
                  r = [DefaultResult(url) EXCEPT !.invalidUrl = TRUE] /\ trace' = trace
             [] pc = "robots" ->
                  r = [DefaultResult(url) EXCEPT !.blockedByRobotsTxt = TRUE]
             [] pc = "fetch" -> IsError(r) \/ r = DefaultResult(url)
             [] pc = "secondary" -> IsError(r)
             [] pc = "finish" ->
                  /\ IsFull(r) /\ trace' = trace
                  /\ r.licenseLink = license_link
                  /\ license_type # "Unknown" => r.licenseType = license_type
             [] OTHER -> FALSE

\* C19: the scan of a site goes through its stages in one order only:
\* validate, request robots.txt, fetch the primary page, extract the footer
\* links and classify from the link, fetch the secondary links, classify
\* from the text if still Unknown, emit.  No stage is entered before the
\* stage ahead of it; an invalid URL, a robots block, an empty page or an
\* exception emits the result at once and no later stage runs.
C19_StageOrder == [][InSite => StageStep]_vars

\* https://unk.org/ went through every stage: robots.txt, the page, its two
\* relevant links with a sleep after each, and the classification from the
\* text, its footer naming no license.
C19_Witness ==
  /\ LoopDone
  /\ \E i \in DOMAIN all_data :
       /\ Site(i) = "https://unk.org/"
       /\ IsFull(all_data[i])
       /\ all_data[i].licenseLink = ""
       /\ all_data[i].licenseType = "CC-BY-SA-4.0"
       /\ \E a, b, c, d \in EventsOf(i) :
            /\ a < b /\ b < c /\ c < d
            /\ IsRobotsGet(a, i)
            /\ trace[b].op = "GET" /\ trace[b].url = Site(i)
            /\ c \in SecondaryOf(i) /\ d \in SecondaryOf(i)
            /\ trace[c + 1].op = "sleep" /\ trace[d + 1].op = "sleep"

\* m and n are two successive secondary requests of site i.
Successive(i, m, n) ==
  /\ m \in SecondaryOf(i) /\ n \in SecondaryOf(i) /\ m < n
  /\ \A k \in SecondaryOf(i) : ~(m < k /\ k < n)

\* C20: between two successive secondary requests of a site there is exactly
\* one sleep, of request_delay seconds, and nothing else: the next link is
\* not requested before the sleep that follows the previous request is over,
\* whether or not the previous page yielded text.
C20_PolitenessDelay ==
  \A i \in DOMAIN sites.items :
    \A m, n \in SecondaryOf(i) :
      Successive(i, m, n) =>
        /\ n = m + 2
        /\ trace[m + 1] = SleepEvent(i, request_delay)
        /\ Cardinality({k \in (m + 1)..(n - 1) : trace[k].op = "sleep"}) = 1

\* https://unk.org/policy yielded no text; the scan slept once and then
\* requested https://unk.org/copyright, whose text it kept.
C20_Witness ==
  /\ pc = "sleep"
  /\ Site(idx) = "https://unk.org/"
  /\ \E m \in SecondaryOf(idx) :
       /\ m + 2 <= Len(trace)
       /\ trace[m].url = "https://unk.org/policy"
       /\ extract_relevant_text(fetch_page(trace[m].url).content) = ""
       /\ trace[m + 1] = SleepEvent(idx, request_delay)
       /\ Successive(idx, m, m + 2)
       /\ trace[m + 2].url = "https://unk.org/copyright"
       /\ Len(combined_content) = 1

----------------------------------------------------------------------------
(* C21 - C30 *)

\* The requests of site i for its primary page
PrimaryOf(i) == {n \in EventsOf(i) : trace[n].op = "GET" /\ trace[n].url = Site(i)}

\* The requests of site i for robots.txt
RobotsOf(i) == {n \in EventsOf(i) : IsRobotsGet(n, i)}

\* C21: within the scan of one site robots.txt is requested at most once,
\* the primary URL at most once and each relevant link at most once, and no
\* request that failed (an exception, a status outside 2xx) is issued again
\* for that site.
C21_NoRetries ==
  \A i \in DOMAIN sites.items :
    /\ Cardinality(RobotsOf(i)) <= 1
    /\ Cardinality(PrimaryOf(i)) <= 1
    /\ \A m, n \in SecondaryOf(i) : trace[m].url = trace[n].url => m = n
    /\ \A m, n \in EventsOf(i) :
         (/\ m < n
          /\ trace[m].op = "GET" /\ trace[n].op = "GET"
          /\ FetchFails(trace[m].url)) => trace[n].url # trace[m].url

\* The call has returned; the primary page of one site failed and a relevant
\* link of another failed, each was requested once and was the last request
\* of its site, and robots.txt of the first, which failed too, was requested
\* once.
C21_Witness ==
  /\ pc = "returned"
  /\ \E i, j \in DOMAIN sites.items :
       /\ i # j
       /\ RobotsRetrievalFails(Site(i)) /\ Cardinality(RobotsOf(i)) = 1
       /\ FetchFails(Site(i)) /\ Cardinality(PrimaryOf(i)) = 1
       /\ IsError(all_data[i]) /\ IsError(all_data[j])
       /\ \E n \in SecondaryOf(j) :
            /\ FetchFails(trace[n].url)
            /\ \A m \in EventsOf(j) : m <= n
            /\ \E m \in SecondaryOf(j) : m < n

\* The maximal runs of characters of s that are neither whitespace nor a
\* hyphen, in their order in s
Tokens(s) ==
  LET inked(i) == /\ i >= 1 /\ i <= Len(s)
                  /\ CharAt(s, i) \notin (Whitespace \cup {"-"})
      starts == {i \in 1..Len(s) : inked(i) /\ ~inked(i - 1)}
      ends == {i \in 1..Len(s) : inked(i) /\ ~inked(i + 1)}
  IN [k \in 1..Cardinality(starts) |-> SubSeq(s, Kth(starts, k), Kth(ends, k))]

\* A token the abbreviation table or the list of versions holds
Recognized(token) == token \in DOMAIN CC_TYPE_MAP \/ token \in SeqRange(CC_VERSIONS)

\* The label the tokens give: each recognized token, in its place, as its
\* abbreviation or as the version it is; "Unknown" if none is recognized
TokenLabel(tokens) ==
  LET known == SelectSeq(tokens, Recognized)
      parts == [k \in DOMAIN known |->
                  IF known[k] \in DOMAIN CC_TYPE_MAP THEN CC_TYPE_MAP[known[k]] ELSE known[k]]
  IN IF known = <<>> THEN "Unknown" ELSE "CC-" \o Join("-", parts)

\* Neither the URL nor the text names CC0 and the URL holds no
\* licenses/{type}/{version} path, while the pattern matches the text.
TextDecides(u, t) ==
  /\ ~UrlNamesCC0(u) /\ ~TextNamesCC0(t) /\ UrlLabels(u) = {}
  /\ Truthy(t) /\ Matches(CC_PATTERN, Lower(t))

\* C22 (under SpecCC): with no CC0 signal and no URL pattern, when the
\* Creative Commons pattern matches the lowercased text, determine_cc_license
\* returns "CC-" followed by the tokens of the matched substring (cut at
\* whitespace and hyphens) that the abbreviation table or the version list
\* holds, abbreviated, in their order in the text and joined by "-";
\* "Unknown" if no token is recognized.
C22_TextPattern ==
  cc_pc = "done" =>
    (TextDecides(cc_url, cc_text)
       => cc_label = TokenLabel(Tokens(Group0(CC_PATTERN, Lower(cc_text)))))

\* The call on no URL and "Creative Commons Attribution-ShareAlike 4.0" gave
\* "CC-BY-SA-4.0": three tokens recognized, two dropped.
C22_Witness ==
  /\ cc_pc = "done"
  /\ cc_url = ""
  /\ cc_text = "Creative Commons Attribution-ShareAlike 4.0"
  /\ TextDecides(cc_url, cc_text)
  /\ Len(Tokens(Group0(CC_PATTERN, Lower(cc_text)))) = 5
  /\ cc_label = "CC-BY-SA-4.0"

\* The pairs <<type, version>>, as positions in CC_TYPES and CC_VERSIONS,
\* whose path licenses/{type}/{version} the URL holds
UrlPatterns(u) ==
  IF ~Truthy(u) THEN {}
  ELSE {p \in {<<a, b>> : a \in DOMAIN CC_TYPES, b \in DOMAIN CC_VERSIONS} :
          Contains(Lower(u), "licenses/" \o Lower(CC_TYPES[p[1]]) \o "/" \o CC_VERSIONS[p[2]])}

PatternLabel(p) == "CC-" \o CC_TYPES[p[1]] \o "-" \o CC_VERSIONS[p[2]]

\* The URL decides: no CC0 signal in the URL or the text, and a pattern in the URL.
UrlDecides(u, t) == ~UrlNamesCC0(u) /\ ~TextNamesCC0(t) /\ UrlPatterns(u) # {}

\* C23 as stated: of the patterns a URL holds, the label is the one of the
\* earliest type in CC_TYPES and, for that type, of the earliest version.
C23_TypeMajor ==
  cc_pc = "done" =>
    (UrlDecides(cc_url, cc_text) =>
       \E p \in UrlPatterns(cc_url) :
         /\ cc_label = PatternLabel(p)
         /\ \A q \in UrlPatterns(cc_url) :
              p[1] < q[1] \/ (p[1] = q[1] /\ p[2] <= q[2]))

\* C23 (under SpecCC): the 30 combinations are tested version by version
\* and, for each version, type by type: of the patterns a URL holds, the
\* label is the one of the earliest version in CC_VERSIONS and, for that
\* version, of the earliest type in CC_TYPES.
C23_VersionMajor ==
  cc_pc = "done" =>
    (UrlDecides(cc_url, cc_text) =>
       \E p \in UrlPatterns(cc_url) :
         /\ cc_label = PatternLabel(p)
         /\ \A q \in UrlPatterns(cc_url) :
              p[2] < q[2] \/ (p[2] = q[2] /\ p[1] <= q[1]))

\* The URL holds licenses/by-sa/1.0 and licenses/by/4.0, and the call gave
\* the label of the earlier version, whose type is the later one.
C23_Witness ==
  /\ cc_pc = "done"
  /\ UrlDecides(cc_url, cc_text)
  /\ UrlPatterns(cc_url) = {<<2, 1>>, <<1, 5>>}
  /\ cc_label = "CC-BY-SA-1.0"

\* "CC0" or a label that starts with "CC-"
IsCcLabel(t) == t = "CC0" \/ StartsWith(t, "CC-")

\* The text names CC0 or the Creative Commons pattern matches it.
TextNamesCC(t) == TextNamesCC0(t) \/ (Truthy(t) /\ Matches(CC_PATTERN, Lower(t)))

\* The pages whose license anchor names MIT, Apache, GPL or BSD and holds no
\* Creative Commons signal in its URL or its text
NonCcLicensed ==
  {u \in ScannedPages :
     LET found == Cached(FooterLinksTable, <<Get(u), u>>, extract_footer_links(Get(u), u))
     IN /\ found.license_link # ""
        /\ ~UrlNamesCC0(found.license_link) /\ UrlLabels(found.license_link) = {}
        /\ ~TextNamesCC(found.license_text)
        /\ \E n \in Families \ {"Creative Commons (CC)"} :
             Matches(LICENSE_PATTERNS[n], found.license_text)}

\* The aggregated texts of the results that name Creative Commons
CcContents ==
  {t[2].content : t \in {k \in FullResultTable : TextNamesCC(k[2].content)}}

\* C24: the licenseType of a result is unset, "Unknown", "CC0" or a label
\* "CC-..."; for a page whose license anchor names MIT, Apache, GPL or BSD
\* with no Creative Commons signal in its URL or text, licenseLink is set and
\* licenseType is "Unknown" unless the aggregated secondary text names a
\* Creative Commons license.
C24_OnlyCcTypes ==
  \A i \in DOMAIN all_data :
    ~IsError(all_data[i]) =>
      /\ all_data[i].licenseType \in {None, "Unknown"} \/ IsCcLabel(all_data[i].licenseType)
      /\ (IsFull(all_data[i]) /\ all_data[i].website \in NonCcLicensed) =>
           /\ Truthy(all_data[i].licenseLink)
           /\ all_data[i].licenseType # "Unknown" =>
                /\ all_data[i].content \in CcContents
                /\ IsCcLabel(all_data[i].licenseType)

\* The license link of one site names MIT, its secondary text no Creative
\* Commons license, and its licenseType is "Unknown" while "MIT License" is a
\* mention; the license link of another names BSD, its secondary text names
\* Creative Commons Zero, and its licenseType is "CC0".
C24_Witness ==
  /\ LoopDone
  /\ \E i, j \in DOMAIN all_data :
       /\ IsFull(all_data[i]) /\ IsFull(all_data[j])
       /\ all_data[i].website \in NonCcLicensed
       /\ all_data[j].website \in NonCcLicensed
       /\ all_data[i].licenseLink = "https://x.org/license"
       /\ "MIT License" \in all_data[i].licenseMentions
       /\ all_data[i].licenseType = "Unknown"
       /\ all_data[j].licenseLink = "https://pd.org/bsd"
       /\ all_data[j].licenseType = "CC0"

\* The step issues requests or sleeps: the trace of the call grows.
Issues == trace' # trace /\ trace' # <<>>

\* The step appends a result.
Appends == Len(all_data') = Len(all_data) + 1

\* C25: every request and every sleep is issued for the site that follows
\* the results appended so far, one at a time; the result of a site is
\* appended before anything is issued for the next, so the requests of two
\* sites never interleave.
C25_Sequential ==
  [][Issues =>
       /\ trace' = Append(trace, trace'[Len(trace')])
       /\ trace'[Len(trace')].site = Len(all_data) + 1
       /\ \A n \in DOMAIN trace : trace[n].site <= trace'[Len(trace')].site
       /\ Appends \/ all_data' = all_data]_vars

\* The call has returned two results; the first site made its robots
\* request, its primary request and secondary requests, and every request
\* of the second comes after them.
C25_Witness ==
  /\ pc = "returned"
  /\ Len(all_data) = 2
  /\ RobotsOf(1) # {} /\ PrimaryOf(1) # {} /\ Cardinality(SecondaryOf(1)) >= 2
  /\ RobotsOf(2) # {} /\ PrimaryOf(2) # {} /\ SecondaryOf(2) # {}
  /\ \A m \in EventsOf(1) : \A n \in EventsOf(2) : m < n

\* The step enters a call of scan_websites.
Enters == pc \in {"idle", "returned"} /\ pc' = "entered"

\* C26 (under SpecHeld): a record that has been appended stays as it is and
\* where it is while the later sites of the batch are processed, and the
\* list a call returned stays as it was returned when scan_websites is
\* called again on the detector and while that call runs.
C26_Immutable ==
  [][/\ ~Enters =>
          \A i \in DOMAIN all_data :
            i \in DOMAIN all_data' /\ all_data'[i] = all_data[i]
     /\ (Enters /\ pc = "returned") => kept' = all_data
     /\ (~Enters /\ kept # None) => kept' = kept]_vars

\* A second call has returned two records; the caller holds the list of the
\* first call, with the two records it had when it was returned, a full one
\* among them, and they are not the records of the second call.
C26_Witness ==
  /\ pc = "returned"
  /\ kept # None
  /\ Len(kept) = 2 /\ Len(all_data) = 2
  /\ \E i \in DOMAIN kept : IsFull(kept[i]) /\ kept[i].relevantLinks # <<>>
  /\ \A i \in DOMAIN kept : \A j \in DOMAIN all_data : kept[i] # all_data[j]

\* The number of relevant links of the page of a site; none if the site has
\* no page that reaches extract_footer_links
RelevantLinkCounts ==
  {<<u, IF u \in ScannedPages
        THEN Cardinality(Cached(FooterLinksTable, <<Get(u), u>>,
                                extract_footer_links(Get(u), u)).relevant_links)
        ELSE 0>> : u \in SiteInputs}

RelevantLinkCount(u) == (CHOOSE t \in RelevantLinkCounts : t[1] = u)[2]

\* The HTTP requests of site i
RequestsOf(i) == {n \in EventsOf(i) : trace[n].op = "GET"}

\* Site i has a record, a result of _process_website or an error record.
Terminal(i) == i \in DOMAIN all_data /\ all_data[i].website = Site(i)

\* C27 (under SpecLive): a call of scan_websites that has entered returns;
\* when it has returned every site of its list has a record; and a site
\* never has more HTTP requests than 2 plus the number of its relevant links.
C27_Termination ==
  /\ (pc = "entered") ~> (pc = "returned")
  /\ [](pc = "returned" =>
          /\ Len(all_data) = Len(sites.items)
          /\ \A i \in DOMAIN sites.items : Terminal(i))
  /\ [](\A i \in DOMAIN sites.items :
          Cardinality(RequestsOf(i)) <= 2 + RelevantLinkCount(Site(i)))

\* The call has returned a record for each of two sites; one has two
\* relevant links or more and made 2 requests and one for each link, the
\* other failed at its primary page.
C27_Witness ==
  /\ pc = "returned"
  /\ Len(sites.items) = 2
  /\ \E i, j \in DOMAIN sites.items :
       /\ Terminal(i) /\ Terminal(j)
       /\ RelevantLinkCount(Site(i)) >= 2
       /\ Cardinality(RequestsOf(i)) = 2 + RelevantLinkCount(Site(i))
       /\ IsError(all_data[j]) /\ Cardinality(RequestsOf(j)) = 2

\* The labels of a license: "Unknown", "CC0", and "CC-" with one of the six
\* types, with or without one of the five versions
WellFormedLabels ==
  {"Unknown", "CC0"}
    \cup {"CC-" \o CC_TYPES[t] : t \in DOMAIN CC_TYPES}
    \cup {"CC-" \o CC_TYPES[t] \o "-" \o CC_VERSIONS[v] :
            t \in DOMAIN CC_TYPES, v \in DOMAIN CC_VERSIONS}

\* C28 (under SpecCC): every label determine_cc_license returns is
\* "Unknown", "CC0", or "CC-" followed by exactly one of the six types and,
\* optionally, "-" and one of the five versions.
C28_WellFormed == cc_pc = "done" => cc_label \in WellFormedLabels

\* C29 (under SpecCC): for a text that spells an attribute with a hyphen or
\* a space, determine_cc_license("", text) is the label it gives for the
\* same text with the attribute in one word.
C29_SpellingIndependent ==
  (cc_pc = "done" /\ cc_url = "") =>
    \A p \in CcAttributeSpellings :
      cc_text = Spelled(p[1]) => cc_label = determine_cc_license("", Spelled(p[2]))

\* Each scanned page with the classification of its license anchor, by the
\* URL and the text of the anchor alone
LinkClassification ==
  {<<u, LET found == Cached(FooterLinksTable, <<Get(u), u>>,
                            extract_footer_links(Get(u), u))
        IN Cached(LinkTypeTable, <<found.license_link, found.license_text>>,
                  determine_cc_license(found.license_link, found.license_text))>> :
     u \in ScannedPages}

\* The sleeps of site i
SleepsOf(i) == {n \in EventsOf(i) : trace[n].op = "sleep"}

\* C30: a full result whose page gave no relevant links comes with no
\* secondary request and no sleep, its content is the empty string, its
\* licenseMentions are empty, and its licenseType is the classification of
\* the license anchor by its URL and text, whatever else the page says.
C30_NoRelevantLinks ==
  \A i \in DOMAIN all_data :
    (IsFull(all_data[i]) /\ all_data[i].relevantLinks = <<>>) =>
      /\ SecondaryOf(i) = {} /\ SleepsOf(i) = {}
      /\ Cardinality(RequestsOf(i)) = 2
      /\ all_data[i].content = ""
      /\ all_data[i].licenseMentions = {}
      /\ <<Site(i), all_data[i].licenseType>> \in LinkClassification

\* The page of https://bare.org/ names CC0, CC BY and Apache in its text and
\* has an MIT license link and no relevant link: its result has the link,
\* "Unknown" as licenseType, no content and no mention, after two requests.
C30_Witness ==
  /\ LoopDone
  /\ \E i \in DOMAIN all_data :
       /\ Site(i) = "https://bare.org/"
       /\ \E k \in DOMAIN Get(Site(i)).elements : TextNamesCC(Get(Site(i)).elements[k])
       /\ extract_licenses(extract_relevant_text(Get(Site(i)))) # {}
       /\ IsFull(all_data[i]) /\ all_data[i].relevantLinks = <<>>
       /\ all_data[i].licenseLink = "https://bare.org/LICENSE.txt"
       /\ all_data[i].licenseType = "Unknown"
       /\ all_data[i].content = "" /\ all_data[i].licenseMentions = {}
       /\ Cardinality(RequestsOf(i)) = 2 /\ SleepsOf(i) = {}

============================================================================
